---------------------------- MODULE Spec2Model ----------------------------
(***************************************************************************)
(* A model of the PipeWire node (src/src/pipewire/node.c): the node state  *)
(* machine driven from the main thread, the work queue that completes      *)
(* state changes, and the per-cycle activation protocol that runs on the   *)
(* data loop (node_ready / resume_node / process_node).                    *)
(*                                                                         *)
(* The main thread and the data loop are two threads.  A blocking          *)
(* pw_loop_invoke runs its callback on the data loop between two handlers. *)
(* The data loop reads only driver_node, driver, master and the rt fields  *)
(* of a node; a main-thread operation that writes none of these before its *)
(* invoke is therefore one step together with the invoke.                  *)
(* pw_node_set_driver writes driver_node and master before it invokes      *)
(* do_move_nodes, so it is two steps and handlers may run in between.      *)
(***************************************************************************)
EXTENDS Integers, Sequences, FiniteSets, TLC

(* ------------------------------ bounds -------------------------------- *)
NumNodes == 3
MaxSeq == 2
MaxWork == 1
MaxLinks == 1
SigCap == 3
NumRacers == 4
MaxRounds == 3
NumStopNodes == 1
NumLifeNodes == 1
NumQueueNodes == 1
MaxPending == 2
MaxTime == 24
MaxReads == 3 * NumNodes

Nodes == 1..NumNodes
NoNode == 0

(* --------------------------- program constants ------------------------ *)
\* enum pw_node_state
PW_NODE_STATE_ERROR == -1
PW_NODE_STATE_CREATING == 0
PW_NODE_STATE_SUSPENDED == 1
PW_NODE_STATE_IDLE == 2
PW_NODE_STATE_RUNNING == 3
NodeStates == PW_NODE_STATE_ERROR..PW_NODE_STATE_RUNNING

\* status of an activation record
NOT_TRIGGERED == 0
TRIGGERED == 1
AWAKE == 2
FINISHED == 3

\* results of spa_node_process that matter to the scheduler
SPA_STATUS_OK == 0
SPA_STATUS_HAVE_BUFFER == 2
ProcStatus == {SPA_STATUS_OK, SPA_STATUS_HAVE_BUFFER}

\* results of a backend call: negative is an error, 0 is done, a value with
\* the async bit carries the sequence number of a later result
ResError == -5
ResExists == -17
ENOENT == 2
ResOk == 0
SPA_RESULT_ASYNC_BIT == 1000
SPA_ID_INVALID == 0
SPA_RESULT_IS_ERROR(res) == res < 0
SPA_RESULT_IS_ASYNC(res) == res >= SPA_RESULT_ASYNC_BIT
SPA_RESULT_ASYNC_SEQ(res) == res - SPA_RESULT_ASYNC_BIT
SPA_RESULT_RETURN_ASYNC(seq) == SPA_RESULT_ASYNC_BIT + seq

VARIABLES
    node,     \* main-thread fields of struct pw_node and struct impl
    work,     \* impl->work: the work queue of each node
    rt,       \* node->rt, node->source.loop and the activation record
    links,    \* the links between the nodes' ports
    pc,       \* what the main thread still has to do in the call it is in
    fault,    \* freed memory or a NULL backend was used
    lastH,    \* the data-loop handler that ran in the last step
    lastM,    \* the main-thread call that ran in the last step
    race,     \* the racing decrements of one activation state
    client,   \* a client of the core: its permissions, the globals and resources
    context,  \* a pa_context: its state, callback, globals and operations
    clock     \* CLOCK_MONOTONIC as the data loop reads it, 0 while not observed

vars == <<node, work, rt, links, pc, fault, lastH, lastM, race, clock,
         client, context>>

\* no client and no context: the values of client and context where the nodes
\* are looked at alone
NoClient == <<>>
NoContext == <<>>

(* The world the operations act on; operations are functions on it. *)
World == [node |-> node, work |-> work, rt |-> rt, links |-> links,
          fault |-> fault, sig |-> {}, ev |-> <<>>, res |-> ResOk,
          moved |-> FALSE, missed |-> {}, badreset |-> {}, now |-> clock,
          inloop |-> FALSE]

Min(a, b) == IF a < b THEN a ELSE b

RemoveEntry(list, e) == SelectSeq(list, LAMBDA x : x # e)
HasEntry(list, e) == \E i \in 1..Len(list) : list[i] = e

TargetEntry(n) == [k |-> "target", n |-> n]
DriverTargetEntry(n) == [k |-> "driver_target", n |-> n]

\* t->activation and t->data of a target entry
EntryNode(w, e) == IF e.k = "target" THEN e.n ELSE w.rt[e.n].driver_target

\* the node whose target_list holds entry e, NoNode when it is in no list
ListOf(r, e) ==
    IF \E m \in Nodes : HasEntry(r[m].target_list, e)
    THEN CHOOSE m \in Nodes : HasEntry(r[m].target_list, e)
    ELSE NoNode

\* a use of the activation record (or of the list head) of node m
Touch(w, m) == IF m = NoNode \/ w.rt[m].freed THEN [w EXCEPT !.fault = TRUE] ELSE w


(* ------------------- activation state (§4.1 of the spec) -------------- *)
\* pw_node_activation_state_reset: pending := required
pw_node_activation_state_reset(a) == [a EXCEPT !.pending = a.required]

\* pw_node_activation_state_dec: one atomic fetch-and-subtract.  pending only
\* falls until the next reset, so a value below zero never becomes zero
\* again: the values below zero are kept as one value, -1.
pw_node_activation_state_dec(a) ==
    [a EXCEPT !.pending = IF a.pending <= 0 THEN -1 ELSE a.pending - 1]

\* the caller is told "reached zero" only once pending has fallen below zero
ReachedZero_below(a) == a.pending < 0

\* the caller that made pending become zero has to signal the target
ReachedZero(a) == a.pending = 0

(* --------------------------- target lists ----------------------------- *)
\* pw_loop_invoke(data_loop, func, ..., block = true, ...): func runs on the
\* data-loop thread and the caller waits for it
InvokeEnter(w) == [w EXCEPT !.inloop = TRUE]
InvokeLeave(w, w0) == [w EXCEPT !.inloop = w0.inloop]

\* a write to the target lists of node this: offloop records a write that
\* was not made on the data-loop thread
ListWrite(w, this) == [w EXCEPT !.rt[this].offloop = @ \/ ~w.inloop]

\* add_node that forgets this->rt.activation->state[0].required++
add_node_keeps_required(w, this, driver) ==
    LET w1 == Touch(w, driver)
        r1 == [w1.rt EXCEPT ![this].driver_target = driver]
        r2 == [r1 EXCEPT ![this].target_list =
                   Append(@, DriverTargetEntry(this))]
        r3 == [r2 EXCEPT ![driver].required = @ + 1]
        r4 == [r3 EXCEPT ![driver].target_list = Append(@, TargetEntry(this))]
    IN  [w1 EXCEPT !.rt = r4]

add_node(w, this, driver) ==
    LET w1 == Touch(w, driver)
        r1 == [w1.rt EXCEPT ![this].driver_target = driver]
        r2 == [r1 EXCEPT ![this].target_list =
                   Append(@, DriverTargetEntry(this))]
        r3 == [r2 EXCEPT ![driver].required = @ + 1]
        r4 == [r3 EXCEPT ![driver].target_list = Append(@, TargetEntry(this))]
        r5 == [r4 EXCEPT ![this].required = @ + 1]
    IN  ListWrite([w1 EXCEPT !.rt = r5], this)

remove_node(w, this) ==
    LET d  == w.rt[this].driver_target
        l  == ListOf(w.rt, TargetEntry(this))
        w1 == Touch(Touch(w, d), l)
        r1 == [w1.rt EXCEPT ![this].target_list =
                   RemoveEntry(@, DriverTargetEntry(this))]
        r2 == [r1 EXCEPT ![d].required = @ - 1]
        r3 == IF l = NoNode THEN r2
              ELSE [r2 EXCEPT ![l].target_list = RemoveEntry(@, TargetEntry(this))]
        r4 == [r3 EXCEPT ![this].required = @ - 1, ![this].cyc = NoNode]
    IN  ListWrite([w1 EXCEPT !.rt = r4], this)

do_node_remove(w, this) ==
    IF w.rt[this].loop
    THEN remove_node([w EXCEPT !.rt[this].loop = FALSE], this)
    ELSE w

\* do_node_add without the test of this->source.loop
do_node_add_again(w, this) ==
    add_node([w EXCEPT !.rt[this].loop = TRUE], this, w.node[this].driver_node)

do_node_add(w, this) ==
    IF ~w.rt[this].loop
    THEN add_node([w EXCEPT !.rt[this].loop = TRUE], this,
                  w.node[this].driver_node)
    ELSE w

\* do_move_nodes that leaves the node where it is
do_move_nodes_stays(w, this, driver) == w

do_move_nodes(w, this, driver) ==
    IF w.rt[this].loop
    THEN add_node(remove_node(w, this), this, driver)
    ELSE w

(* ------------------------- the cycle protocol ------------------------- *)
\* t->signal(t->data) was called for node m
NoteSignal(w, m) ==
    [w EXCEPT !.rt[m].nsig = Min(@ + 1, SigCap), !.sig = @ \cup {m}]

RECURSIVE resume_node(_, _, _), ResumeLoop(_, _, _, _, _), process_node(_, _, _)

\* the test of the loop body of resume_node on one activation record: the
\* decrement and what it tells the caller
DecTarget_not_positive(a) ==
    LET b == pw_node_activation_state_dec(a)
    IN  [a |-> b, signal |-> b.pending <= 0]

\* the caller is told the value it found, not the value it left
DecTarget_old_value(a) ==
    [a |-> pw_node_activation_state_dec(a), signal |-> a.pending = 0]

DecTarget(a) ==
    LET b == pw_node_activation_state_dec(a)
    IN  [a |-> b, signal |-> ReachedZero(b)]

\* clock_gettime(CLOCK_MONOTONIC): the value read is w.now, and the clock has
\* moved on at the next reading; a clock that is not observed stays at 0
clock_gettime(w) == [w EXCEPT !.now = IF @ = 0 THEN 0 ELSE @ + 1]

\* the body of the loop over this->rt.target_list, for entry e; nsec is the
\* time resume_node read
ResumeStep(w, e, nsec) ==
    LET m  == EntryNode(w, e)
        w1 == Touch(w, m)
        s  == DecTarget(w1.rt[m])
        w2 == [w1 EXCEPT !.rt[m] = s.a]
    IN  [w |-> IF s.signal
               THEN NoteSignal([w2 EXCEPT !.rt[m].status = TRIGGERED,
                                          !.rt[m].signal_time = nsec], m)
               ELSE w2,
         signal |-> s.signal, data |-> m]

ResumeLoop(w, this, i, st, nsec) ==
    IF i > Len(w.rt[this].target_list) THEN w
    ELSE LET s == ResumeStep(w, w.rt[this].target_list[i], nsec)
         IN  ResumeLoop(IF s.signal THEN process_node(s.w, s.data, st) ELSE s.w,
                        this, i + 1, st, nsec)

resume_node(w, this, st) ==
    ResumeLoop([clock_gettime(w) EXCEPT !.rt[this].status = FINISHED,
                                        !.rt[this].finish_time = w.now],
               this, 1, st, w.now)

\* process_node that triggers the peers whatever process() returned
process_node_resumes(w, this, st) ==
    LET w1 == [clock_gettime(Touch(w, this)) EXCEPT
                   !.rt[this].status = AWAKE,
                   !.rt[this].awake_time = w.now]
    IN  IF this = w1.node[this].driver_node /\ ~w1.node[this].exported
        THEN [clock_gettime(w1) EXCEPT
                  !.rt[this].status = FINISHED,
                  !.rt[this].signal_time = w1.rt[this].finish_time,
                  !.rt[this].finish_time = w1.now,
                  !.rt[this].running = FALSE]
        ELSE resume_node(w1, this, st)

process_node(w, this, st) ==
    LET w1 == [clock_gettime(Touch(w, this)) EXCEPT
                   !.rt[this].status = AWAKE,
                   !.rt[this].awake_time = w.now]
    IN  IF this = w1.node[this].driver_node /\ ~w1.node[this].exported
        THEN [clock_gettime(w1) EXCEPT
                  !.rt[this].status = FINISHED,
                  !.rt[this].signal_time = w1.rt[this].finish_time,
                  !.rt[this].finish_time = w1.now,
                  !.rt[this].running = FALSE]
        ELSE IF st[this] = SPA_STATUS_OK
        THEN [w1 EXCEPT !.rt[this].async = TRUE]
        ELSE resume_node(w1, this, st)

RECURSIVE ResetLoop(_, _, _, _)
ResetLoop(w, d, list, i) ==
    IF i > Len(list) THEN w
    ELSE LET m  == EntryNode(w, list[i])
             w1 == Touch(w, m)
         IN  ResetLoop([w1 EXCEPT !.rt[m] =
                            [pw_node_activation_state_reset(@) EXCEPT
                                !.status = NOT_TRIGGERED, !.nsig = 0,
                                !.cyc = d]],
                       d, list, i + 1)

\* the number of target entries, in all lists, that decrement activation m
FanIn(r, m) ==
    Cardinality({e \in {<<l, i>> : l \in Nodes, i \in 1..(2 * NumNodes)} :
        /\ e[2] <= Len(r[e[1]].target_list)
        /\ LET t == r[e[1]].target_list[e[2]]
           IN  (IF t.k = "target" THEN t.n ELSE r[t.n].driver_target) = m})

\* the targets of the list of d that the reset of a cycle start left with a
\* pending counter other than required, or a required other than the fan-in
BadReset(w, d) ==
    {m \in Nodes : /\ \E i \in 1..Len(w.rt[d].target_list) :
                         EntryNode(w, w.rt[d].target_list[i]) = m
                   /\ ~(w.rt[m].pending = w.rt[m].required
                         /\ w.rt[m].required = FanIn(w.rt, m))}

\* the targets of the list of d that were reset when the cycle began and
\* were not signalled exactly once when the next one begins
Missed(w, d) ==
    {m \in Nodes : /\ \E i \in 1..Len(w.rt[d].target_list) :
                         EntryNode(w, w.rt[d].target_list[i]) = m
                   /\ w.rt[m].cyc = d
                   /\ w.rt[m].nsig # 1}

\* node_ready that does not kick its target when the graph has not finished
node_ready_no_kick(w, this, st) ==
    LET driver == w.node[this].driver_node
        w1 == IF this = driver
              THEN LET k == w
                       z == ResetLoop(k, driver, k.rt[driver].target_list, 1)
                   IN  [z EXCEPT !.rt[this].running = TRUE,
                                 !.missed = Missed(k, driver),
                                 !.badreset = BadReset(z, driver)]
              ELSE w
    IN  IF w1.node[this].driver /\ ~w1.node[this].master
        THEN w1
        ELSE resume_node(w1, this, st)

node_ready(w, this, st) ==
    LET driver == w.node[this].driver_node
        w1 == IF this = driver
              THEN LET k == IF w.rt[this].running
                            THEN process_node(NoteSignal(w, this), this, st)
                            ELSE w
                       z == ResetLoop(k, driver, k.rt[driver].target_list, 1)
                   IN  [z EXCEPT !.rt[this].running = TRUE,
                                 !.missed = Missed(k, driver),
                                 !.badreset = BadReset(z, driver)]
              ELSE w
    IN  IF w1.node[this].driver /\ ~w1.node[this].master
        THEN w1
        ELSE resume_node(w1, this, st)


(* ------------------------------- links -------------------------------- *)
Links == 1..MaxLinks
NoLink == [out |-> NoNode, in |-> NoNode, state |-> "none"]

Count(S) == Cardinality(S)
n_used_output_links(w, n) ==
    Count({l \in Links : w.links[l].state # "none" /\ w.links[l].out = n})
n_used_input_links(w, n) ==
    Count({l \in Links : w.links[l].state # "none" /\ w.links[l].in = n})
n_ready_output_links(w, n) ==
    Count({l \in Links : w.links[l].state = "active" /\ w.links[l].out = n})
n_ready_input_links(w, n) ==
    Count({l \in Links : w.links[l].state = "active" /\ w.links[l].in = n})

LinksOf(w, n) ==
    {l \in Links : w.links[l].state # "none"
                   /\ (w.links[l].out = n \/ w.links[l].in = n)}

\* pw_link_activate: paused -> active
pw_link_activate(w, l) ==
    IF w.links[l].state = "paused" THEN [w EXCEPT !.links[l].state = "active"]
    ELSE w

\* pw_link_deactivate: active -> paused
pw_link_deactivate(w, l) ==
    IF w.links[l].state = "active" THEN [w EXCEPT !.links[l].state = "paused"]
    ELSE w

node_activate(w, this) ==
    [w EXCEPT !.links = [l \in Links |->
        IF l \in LinksOf(w, this) THEN pw_link_activate(w, l).links[l]
        ELSE w.links[l]]]

node_deactivate(w, this) ==
    [w EXCEPT !.links = [l \in Links |->
        IF l \in LinksOf(w, this) THEN pw_link_deactivate(w, l).links[l]
        ELSE w.links[l]]]

(* ------------------------- backend commands --------------------------- *)
\* spa_node_send_command(this->node, cmd) answered with bres; a node without
\* a backend has this->node == NULL
spa_node_send_command(w, this, cmd, bres) ==
    IF ~w.node[this].impl THEN [w EXCEPT !.fault = TRUE, !.res = ResError]
    ELSE [w EXCEPT !.res = bres,
                   !.node[this].seqno =
                       IF SPA_RESULT_IS_ASYNC(bres) THEN SPA_RESULT_ASYNC_SEQ(bres)
                       ELSE @,
                   !.ev = Append(@, [e |-> "command", cmd |-> cmd]),
                   !.node[this].started =
                       IF SPA_RESULT_IS_ERROR(bres) THEN @ ELSE cmd = "Start"]

\* the answers a backend can give to the next call; a backend of kind "sync"
\* completes every call at once
BackendRes(n, kind) ==
    IF kind = "sync" THEN {ResOk}
    ELSE {ResOk, ResError} \cup
         (IF node[n].seqno < MaxSeq
          THEN {SPA_RESULT_RETURN_ASYNC(node[n].seqno + 1)} ELSE {})

(* ---------------------------- node state ------------------------------ *)
Emit(w, e) == [w EXCEPT !.ev = Append(@, e)]

\* emit_info_changed with the bits mask set in info.change_mask, which is
\* zero between two calls
emit_info_changed(w, mask) ==
    IF mask = {} THEN w ELSE Emit(w, [e |-> "info_changed", mask |-> mask])

\* node_update_state that does not look at the old state
node_update_state_always(w, this, state, error) ==
    LET old == w.node[this].state
        w1  == [w EXCEPT !.node[this].error = error,
                         !.node[this].state = state]
        w2  == IF state = PW_NODE_STATE_RUNNING
               THEN InvokeLeave(do_node_add(InvokeEnter(w1), this), w1)
               ELSE w1
    IN  emit_info_changed(Emit(w2, [e |-> "state_changed", old |-> old,
                                    state |-> state, error |-> error]),
                          {"state"})

node_update_state(w, this, state, error) ==
    LET old == w.node[this].state
        w1  == [w EXCEPT !.node[this].error = error,
                         !.node[this].state = state]
        w2  == IF state = PW_NODE_STATE_RUNNING
               THEN InvokeLeave(do_node_add(InvokeEnter(w1), this), w1)
               ELSE w1
    IN  IF old = state THEN w
        ELSE emit_info_changed(Emit(w2, [e |-> "state_changed", old |-> old,
                                         state |-> state, error |-> error]),
                               {"state"})

\* pause_node that calls do_node_remove itself, on the main thread
pause_node_direct(w, this, bres) ==
    IF w.node[this].state <= PW_NODE_STATE_IDLE THEN [w EXCEPT !.res = ResOk]
    ELSE spa_node_send_command(do_node_remove(node_deactivate(w, this), this),
                               this, "Pause", bres)

\* pause_node without the test of the state
pause_node_any_state(w, this, bres) ==
    LET w1 == node_deactivate(w, this)
        w2 == InvokeLeave(do_node_remove(InvokeEnter(w1), this), w1)
    IN  spa_node_send_command(w2, this, "Pause", bres)

pause_node(w, this, bres) ==
    IF w.node[this].state <= PW_NODE_STATE_IDLE THEN [w EXCEPT !.res = ResOk]
    ELSE LET w1 == node_deactivate(w, this)
             w2 == InvokeLeave(do_node_remove(InvokeEnter(w1), this), w1)
         IN  spa_node_send_command(w2, this, "Pause", bres)

start_node(w, this, bres) ==
    IF w.node[this].state >= PW_NODE_STATE_RUNNING THEN [w EXCEPT !.res = ResOk]
    ELSE IF n_ready_output_links(w, this) # n_used_output_links(w, this)
            \/ n_ready_input_links(w, this) # n_used_input_links(w, this)
    THEN [w EXCEPT !.res = ResOk, !.node[this].deferred = TRUE]
    ELSE spa_node_send_command([w EXCEPT !.node[this].deferred = FALSE],
                               this, "Start", bres)

\* suspend_node that leaves the ports alone unless the format was unset at once
suspend_node_on_success(w, this, pres) ==
    LET has == \E p \in DOMAIN w.node[this].ports : w.node[this].ports[p] # "none"
        w1  == [w EXCEPT !.node[this].ports =
                   [p \in DOMAIN @ |-> IF @[p] = "none" \/ pres # ResOk
                                       THEN @[p] ELSE "configure"],
                         !.node[this].seqno =
                   IF has /\ SPA_RESULT_IS_ASYNC(pres)
                   THEN SPA_RESULT_ASYNC_SEQ(pres) ELSE @]
        w2  == node_update_state(w1, this, PW_NODE_STATE_SUSPENDED, "")
    IN  [w2 EXCEPT !.res = IF has THEN pres ELSE ResOk]

\* pres is what pw_port_set_param answers for the last port of the node
suspend_node(w, this, pres) ==
    LET has == \E p \in DOMAIN w.node[this].ports : w.node[this].ports[p] # "none"
        w1  == [w EXCEPT !.node[this].ports =
                   [p \in DOMAIN @ |-> IF @[p] = "none" THEN "none" ELSE "configure"],
                         !.node[this].seqno =
                   IF has /\ SPA_RESULT_IS_ASYNC(pres)
                   THEN SPA_RESULT_ASYNC_SEQ(pres) ELSE @]
        w2  == node_update_state(w1, this, PW_NODE_STATE_SUSPENDED, "")
    IN  [w2 EXCEPT !.res = IF has THEN pres ELSE ResOk]

\* node_send_command, the method a client calls on a resource of the node:
\* Suspend suspends the node, any other command goes to the backend; the
\* result of either is dropped
node_send_command(w, this, cmd, bres) ==
    [(IF cmd = "Suspend" THEN suspend_node(w, this, bres)
      ELSE spa_node_send_command(w, this, cmd, bres)) EXCEPT !.res = ResOk]

pw_node_initialized(w, this) ==
    [node_update_state(Emit(w, [e |-> "initialized"]), this,
                       PW_NODE_STATE_SUSPENDED, "") EXCEPT !.res = ResOk]


(* --------------------- work queue (§4.6 of the spec) ------------------ *)
\* an item waits for a result when its seq is a sequence number; it is ready
\* to run when its seq is SPA_ID_INVALID
pw_work_queue_add(w, obj, res, data) ==
    [w EXCEPT !.work[obj] = Append(@,
        [seq  |-> IF SPA_RESULT_IS_ASYNC(res) THEN SPA_RESULT_ASYNC_SEQ(res)
                  ELSE SPA_ID_INVALID,
         res  |-> res,
         data |-> data])]

on_state_complete(w, this, data, res) ==
    IF SPA_RESULT_IS_ERROR(res)
    THEN node_update_state(w, this, PW_NODE_STATE_ERROR, "error changing node state")
    ELSE node_update_state(w, this, data, "")

\* index of the first item of obj that waits for seq, 0 when there is none
FirstWaiting(q, seq) ==
    IF \E i \in 1..Len(q) : q[i].seq = seq
    THEN CHOOSE i \in 1..Len(q) : q[i].seq = seq
                                  /\ \A j \in 1..(i - 1) : q[j].seq # seq
    ELSE 0

DropAt(q, i) == [j \in 1..(Len(q) - 1) |-> IF j < i THEN q[j] ELSE q[j + 1]]

\* complete that takes the oldest entry that waits for a result, whatever
\* its sequence
pw_work_queue_complete_oldest(w, obj, seq, res) ==
    LET W == {j \in 1..Len(w.work[obj]) : w.work[obj][j].seq # SPA_ID_INVALID}
        i == IF W = {} THEN 0 ELSE CHOOSE j \in W : \A k \in W : j <= k
    IN  IF i = 0 THEN w
        ELSE on_state_complete([w EXCEPT !.work[obj] = DropAt(@, i)],
                               obj, w.work[obj][i].data, res)

\* complete(owner, sequence, result): the first entry that waits for the
\* sequence is invoked and removed
pw_work_queue_complete(w, obj, seq, res) ==
    LET i == FirstWaiting(w.work[obj], seq)
    IN  IF i = 0 THEN w
        ELSE on_state_complete([w EXCEPT !.work[obj] = DropAt(@, i)],
                               obj, w.work[obj][i].data, res)

\* the main loop runs the entries that wait for no result, in FIFO order
RECURSIVE process_work_queue(_, _)
process_work_queue(w, obj) ==
    LET i == FirstWaiting(w.work[obj], SPA_ID_INVALID)
    IN  IF i = 0 THEN w
        ELSE process_work_queue(
                 on_state_complete([w EXCEPT !.work[obj] = DropAt(@, i)],
                                   obj, w.work[obj][i].data, w.work[obj][i].res),
                 obj)

node_result(w, this, seq, res) ==
    LET w1 == [w EXCEPT !.node[this].last_error = res]
    IN  Emit(IF SPA_RESULT_IS_ASYNC(seq)
             THEN pw_work_queue_complete(w1, this, SPA_RESULT_ASYNC_SEQ(seq), res)
             ELSE w1,
             [e |-> "result", seq |-> seq])

(* ------------------------- pw_node_for_each_param --------------------- *)
\* UINT32_MAX is 4294967295; the model takes the largest number TLC has, more
\* results than any backend of the model emits
UINT32_MAX == 2147483647

\* result_node_params, the result callback of the listener d
result_node_params(w, d, seq) ==
    IF d.seq = seq THEN Emit(w, [e |-> "param", seq |-> seq]) ELSE w

RECURSIVE EmitToHooks(_, _, _)
EmitToHooks(w, hs, seq) ==
    IF hs = <<>> THEN w
    ELSE EmitToHooks(result_node_params(w, Head(hs), seq), Tail(hs), seq)

\* the backend emits a result to its listeners: node_result, which was added
\* by pw_node_set_implementation, and then the listeners added after it
spa_node_emit_result(w, this, seq, res) ==
    EmitToHooks(node_result(w, this, seq, res), w.node[this].hooks, seq)

\* spa_node_enum_params of the backend: while it runs the backend emits the
\* results during, and stops when it has emitted max results for seq
RECURSIVE spa_node_enum_params(_, _, _, _, _)
spa_node_enum_params(w, this, seq, max, during) ==
    IF during = <<>> THEN [w EXCEPT !.res = ResOk]
    ELSE IF Head(during) = seq /\ max = 0 THEN [w EXCEPT !.res = ResOk]
    ELSE spa_node_enum_params(spa_node_emit_result(w, this, Head(during), ResOk),
                              this, seq,
                              IF Head(during) = seq THEN max - 1 ELSE max,
                              Tail(during))

\* pw_node_for_each_param without spa_hook_remove
pw_node_for_each_param_keeps_listener(w, this, seq, max, during) ==
    LET max1 == IF max = 0 THEN UINT32_MAX ELSE max
        w1   == [w EXCEPT !.node[this].hooks = Append(@, [seq |-> seq])]
    IN  spa_node_enum_params(w1, this, seq, max1, during)

pw_node_for_each_param(w, this, seq, max, during) ==
    LET max1 == IF max = 0 THEN UINT32_MAX ELSE max
        w1   == [w EXCEPT !.node[this].hooks = Append(@, [seq |-> seq])]
        w2   == spa_node_enum_params(w1, this, seq, max1, during)
    IN  [w2 EXCEPT !.node[this].hooks = SubSeq(@, 1, Len(@) - 1)]

(* -------------------------------- ports ------------------------------ *)
NoPort == 0
NoInfo == "NULL"

\* pw_node_find_port for a port id that is not SPA_ID_INVALID: the lookup in
\* the port map of the direction
pw_node_find_port(w, this, direction, port_id) ==
    IF port_id \in w.node[this].port_map[direction] THEN port_id ELSE NoPort

\* pw_port_add that does not look for a port with the same id
pw_port_add_unchecked(w, this, direction, port_id) ==
    [w EXCEPT !.node[this].port_map[direction] = @ \cup {port_id},
              !.node[this].port_list[direction] = Append(@, port_id),
              !.node[this].ports[direction] = IF @ = "none" THEN "init" ELSE @,
              !.res = ResOk]

\* pw_port_add: the port is refused when the node has a port of that
\* direction with that id, else it enters the port map and the port list
pw_port_add(w, this, direction, port_id) ==
    IF pw_node_find_port(w, this, direction, port_id) # NoPort
    THEN [w EXCEPT !.res = ResExists]
    ELSE [w EXCEPT !.node[this].port_map[direction] = @ \cup {port_id},
                   !.node[this].port_list[direction] = Append(@, port_id),
                   !.node[this].ports[direction] = IF @ = "none" THEN "init" ELSE @,
                   !.res = ResOk]

\* pw_port_destroy: the port leaves the port map and the port list
pw_port_destroy(w, this, direction, port_id) ==
    LET l == SelectSeq(w.node[this].port_list[direction], LAMBDA x : x # port_id)
    IN  [w EXCEPT !.node[this].port_map[direction] = @ \ {port_id},
                  !.node[this].port_list[direction] = l,
                  !.node[this].ports[direction] = IF l = <<>> THEN "none" ELSE @]

\* node_port_info: the backend announces (info), changes (info, the port is
\* there) or withdraws (NoInfo) port port_id
node_port_info(w, this, direction, port_id, info) ==
    LET port == pw_node_find_port(w, this, direction, port_id)
    IN  IF info = NoInfo
        THEN IF port # NoPort THEN pw_port_destroy(w, this, direction, port)
             ELSE w
        ELSE IF port # NoPort THEN w
        ELSE pw_port_add(w, this, direction, port_id)

node_event(w, this) ==
    Emit(node_update_state([w EXCEPT !.node[this].last_error = ResError],
                           this, PW_NODE_STATE_ERROR, "error"),
         [e |-> "event"])

(* ----------------------------- set_state ------------------------------ *)
\* pw_node_set_state that updates the state before it queues the completion
pw_node_set_state_eager(w, this, state, bres) ==
    LET old == w.node[this].state
        w0  == Emit(w, [e |-> "state_request", state |-> state])
        w1  == CASE state = PW_NODE_STATE_SUSPENDED -> suspend_node(w0, this, bres)
                 [] state = PW_NODE_STATE_IDLE ->
                        IF w0.node[this].active /\ w0.node[this].pause_on_idle
                        THEN pause_node(w0, this, bres)
                        ELSE [w0 EXCEPT !.res = ResOk]
                 [] state = PW_NODE_STATE_RUNNING ->
                        IF w0.node[this].active
                        THEN start_node(node_activate(w0, this), this, bres)
                        ELSE [w0 EXCEPT !.res = ResOk]
                 [] OTHER -> [w0 EXCEPT !.res = ResOk]
    IN  IF old = state THEN [w EXCEPT !.res = ResOk]
        ELSE IF state = PW_NODE_STATE_CREATING THEN [w0 EXCEPT !.res = ResError]
        ELSE IF SPA_RESULT_IS_ERROR(w1.res) THEN w1
        ELSE pw_work_queue_add(node_update_state(w1, this, state, ""),
                               this, w1.res, state)

\* pw_node_set_state without the case PW_NODE_STATE_CREATING
pw_node_set_state_creating(w, this, state, bres) ==
    LET old == w.node[this].state
        w0  == Emit(w, [e |-> "state_request", state |-> state])
        w1  == CASE state = PW_NODE_STATE_SUSPENDED -> suspend_node(w0, this, bres)
                 [] state = PW_NODE_STATE_IDLE ->
                        IF w0.node[this].active /\ w0.node[this].pause_on_idle
                        THEN pause_node(w0, this, bres)
                        ELSE [w0 EXCEPT !.res = ResOk]
                 [] state = PW_NODE_STATE_RUNNING ->
                        IF w0.node[this].active
                        THEN start_node(node_activate(w0, this), this, bres)
                        ELSE [w0 EXCEPT !.res = ResOk]
                 [] OTHER -> [w0 EXCEPT !.res = ResOk]
    IN  IF old = state THEN [w EXCEPT !.res = ResOk]
        ELSE IF SPA_RESULT_IS_ERROR(w1.res) THEN w1
        ELSE pw_work_queue_add(w1, this, w1.res, state)

pw_node_set_state(w, this, state, bres) ==
    LET old == w.node[this].state
        w0  == Emit(w, [e |-> "state_request", state |-> state])
        w1  == CASE state = PW_NODE_STATE_SUSPENDED -> suspend_node(w0, this, bres)
                 [] state = PW_NODE_STATE_IDLE ->
                        IF w0.node[this].active /\ w0.node[this].pause_on_idle
                        THEN pause_node(w0, this, bres)
                        ELSE [w0 EXCEPT !.res = ResOk]
                 [] state = PW_NODE_STATE_RUNNING ->
                        IF w0.node[this].active
                        THEN start_node(node_activate(w0, this), this, bres)
                        ELSE [w0 EXCEPT !.res = ResOk]
                 [] OTHER -> [w0 EXCEPT !.res = ResOk]
    IN  IF old = state THEN [w EXCEPT !.res = ResOk]
        ELSE IF state = PW_NODE_STATE_CREATING THEN [w0 EXCEPT !.res = ResError]
        ELSE IF SPA_RESULT_IS_ERROR(w1.res) THEN w1
        ELSE pw_work_queue_add(w1, this, w1.res, state)


(* ------------------ register, implementation, active ------------------ *)
\* pw_port_register of the ports of one direction that are there
RegisterPorts(w, this, p) ==
    IF w.node[this].ports[p] = "none" THEN w
    ELSE Emit(w, [e |-> "port_register", p |-> p])

\* pw_node_register without the test of this->registered
pw_node_register_again(w, this, gok) ==
    LET w1 == [w EXCEPT !.node[this].registered = TRUE,
                        !.node[this].in_list = TRUE]
        w2 == pw_node_initialized([w1 EXCEPT !.node[this].global = TRUE], this)
        w3 == RegisterPorts(RegisterPorts(w2, this, "in"), this, "out")
    IN  IF ~gok THEN [w1 EXCEPT !.res = ResError]
        ELSE [w3 EXCEPT !.res = ResOk]

\* gok tells whether pw_global_new returns a global
pw_node_register(w, this, gok) ==
    LET w1 == [w EXCEPT !.node[this].registered = TRUE,
                        !.node[this].in_list = TRUE]
        w2 == pw_node_initialized([w1 EXCEPT !.node[this].global = TRUE], this)
        w3 == RegisterPorts(RegisterPorts(w2, this, "in"), this, "out")
    IN  IF w.node[this].registered THEN [w EXCEPT !.res = ResError]
        ELSE IF ~gok THEN [w1 EXCEPT !.res = ResError]
        ELSE [w3 EXCEPT !.res = ResOk]

\* a backend: its identity and whether its set_io accepts SPA_IO_Position and
\* SPA_IO_Clock
Backend(b, pos, clk) == [id |-> b, position |-> pos, clock |-> clk]
DefaultBackend == Backend(1, TRUE, TRUE)

\* pw_node_set_implementation without the test of node->node
pw_node_set_implementation_replace(w, this, spa_node) ==
    [w EXCEPT !.node[this].impl = TRUE,
              !.node[this].spa_node = spa_node.id,
              !.node[this].callbacks = spa_node.id,
              !.node[this].position = @ \/ spa_node.position,
              !.node[this].clock = @ \/ spa_node.clock,
              !.res = ResOk]

pw_node_set_implementation(w, this, spa_node) ==
    IF w.node[this].impl THEN [w EXCEPT !.res = ResError]
    ELSE [w EXCEPT !.node[this].impl = TRUE,
                   !.node[this].spa_node = spa_node.id,
                   !.node[this].callbacks = spa_node.id,
                   !.node[this].position = @ \/ spa_node.position,
                   !.node[this].clock = @ \/ spa_node.clock,
                   !.res = ResOk]

\* the part of pw_node_set_driver that runs before the invoke of do_move_nodes
pw_node_set_driver(w, this, d) ==
    LET old    == w.node[this].driver_node
        driver == IF d = NoNode THEN this ELSE d
        w1     == [w EXCEPT !.node[this].master =
                                w.node[this].driver /\ driver = this,
                            !.node[this].driver_node = driver]
        w2     == IF w1.node[this].impl THEN w1 ELSE [w1 EXCEPT !.fault = TRUE]
    IN  IF old = driver THEN [w EXCEPT !.res = ResOk, !.moved = FALSE]
        ELSE [Emit(w2, [e |-> "driver_changed"]) EXCEPT !.res = ResOk,
                                                       !.moved = TRUE]

\* pw_core_recalc_graph (§4.5 of the spec) gives every node of the core's
\* node list a driver that is in the list: the nodes it has to move
NeedsDriver(w) ==
    {m \in Nodes : w.node[m].alive /\ w.node[m].in_list
                   /\ ~w.node[w.node[m].driver_node].in_list
                   /\ w.node[m].driver_node # m}

pw_node_set_active(w, this, active, bres) ==
    LET w1 == IF ~active
              THEN pw_node_set_state(w, this, PW_NODE_STATE_IDLE, bres) ELSE w
        w2 == Emit([w1 EXCEPT !.node[this].active = active],
                   [e |-> "active_changed"])
        w3 == IF active THEN node_activate(w2, this) ELSE w2
        w4 == Emit(w3, [e |-> "recalc_graph"])
    IN  IF w.node[this].active = active THEN [w EXCEPT !.res = ResOk]
        ELSE [w4 EXCEPT !.res = ResOk]

\* the value of a property: NoProp when the property bag does not hold the
\* key (pw_properties_get returns NULL), else its string
NoProp == "NULL"
PropValues == {NoProp, "true", "false"}
BoolProp(b) == IF b THEN "true" ELSE "false"
pw_properties_parse_bool(str) == str = "true"

\* check_properties: node.pause-on-idle and node.driver are read from the
\* properties; master and driver_node are left as they are
check_properties(w, this, poi, drv) ==
    [w EXCEPT !.node[this].pause_on_idle =
                  IF poi # NoProp THEN pw_properties_parse_bool(poi) ELSE TRUE,
              !.node[this].driver =
                  IF drv # NoProp THEN pw_properties_parse_bool(drv) ELSE FALSE]

pw_node_update_properties(w, this, poi, drv) ==
    emit_info_changed(check_properties(w, this, poi, drv), {"props"})

\* a node as pw_node_new leaves it; pause_on_idle and driver come from the
\* properties (check_properties)
NewNode(n, poi, drv) ==
    [alive |-> TRUE, destroying |-> FALSE, impl |-> FALSE, registered |-> FALSE,
     in_list |-> FALSE, global |-> FALSE, state |-> PW_NODE_STATE_CREATING,
     error |-> "", active |-> FALSE, pause_on_idle |-> poi, driver |-> drv,
     master |-> TRUE, driver_node |-> n, exported |-> FALSE, seqno |-> 0,
     started |-> FALSE, deferred |-> FALSE, last_error |-> ResOk,
     ports |-> [p \in {"in", "out"} |-> "none"],
     spa_node |-> 0, callbacks |-> 0, position |-> FALSE, clock |-> FALSE,
     hooks |-> <<>>,
     port_list |-> [p \in {"in", "out"} |-> <<>>],
     port_map |-> [p \in {"in", "out"} |-> {}]]

NewRt ==
    [loop |-> FALSE, target_list |-> <<>>, driver_target |-> NoNode,
     pending |-> 0, required |-> 0, status |-> NOT_TRIGGERED, running |-> FALSE,
     freed |-> FALSE, async |-> FALSE, nsig |-> 0, cyc |-> NoNode,
     signal_time |-> 0, awake_time |-> 0, finish_time |-> 0,
     offloop |-> FALSE]

FreedRt == [NewRt EXCEPT !.freed = TRUE]
FreedNode(n) == [NewNode(n, FALSE, FALSE) EXCEPT !.alive = FALSE]

(* ------------------------------ destroy ------------------------------- *)
\* pw_node_destroy up to pw_core_recalc_graph
DestroyHead(w, this, bres, pres) ==
    LET w1 == pause_node(Emit(w, [e |-> "destroy"]), this, bres)
        w2 == suspend_node(w1, this, pres)
        w3 == [w2 EXCEPT !.node[this].in_list = FALSE,
                         !.node[this].destroying = TRUE,
                         !.node[this].global = FALSE,
                         !.node[this].ports = [p \in DOMAIN @ |-> "none"],
                         !.node[this].port_list = [p \in DOMAIN @ |-> <<>>],
                         !.node[this].port_map = [p \in DOMAIN @ |-> {}],
                         !.links = [l \in Links |->
                             IF l \in LinksOf(w2, this) THEN NoLink ELSE @[l]]]
    IN  w3

\* pw_node_destroy from pw_memblock_free on: the activation record and the
\* node are freed, their fields have no value any more
DestroyTail(w, this) ==
    [w EXCEPT !.rt[this] = [FreedRt EXCEPT !.offloop = w.rt[this].offloop],
              !.work[this] = <<>>,
              !.node[this] = FreedNode(this)]


(* ------------------------- the main thread ---------------------------- *)
NoHandler == [kind |-> "none", root |-> NoNode, sig |-> {}, missed |-> {},
              badreset |-> {}]
Off == [op |-> "off"]
NoCall == [op |-> "none"]

\* the record of a main-thread call, kept when calls are being recorded; it
\* holds the commands and events of the call when those are recorded too
Rec(op, n, arg, w) ==
    IF lastM = Off THEN Off
    ELSE IF "ev" \in DOMAIN lastM
    THEN [op |-> op, n |-> n, arg |-> arg, res |-> w.res, ev |-> w.ev]
    ELSE [op |-> op, n |-> n, arg |-> arg, res |-> w.res]

MinOf(S) == CHOOSE x \in S : \A y \in S : x <= y

\* run the main thread until it has to wait for the data loop
RECURSIVE Continue(_, _)
Continue(w, k) ==
    IF k = <<>> THEN [w |-> w, pc |-> k]
    ELSE IF Head(k).op = "recalc"
    THEN IF NeedsDriver(w) = {} THEN Continue(w, Tail(k))
         ELSE LET m == MinOf(NeedsDriver(w))
              IN  [w |-> pw_node_set_driver(w, m, NoNode),
                   pc |-> <<[op |-> "move", node |-> m, driver |-> m]>> \o k]
    ELSE IF Head(k).op = "free"
    THEN Continue(DestroyTail(w, Head(k).node), Tail(k))
    ELSE [w |-> w, pc |-> k]

Commit(c) ==
    /\ node' = c.w.node
    /\ work' = c.w.work
    /\ rt' = c.w.rt
    /\ links' = c.w.links
    /\ fault' = c.w.fault
    /\ pc' = c.pc
    /\ clock' = c.w.now

MainIdle == pc = <<>>
Alive(n) == node[n].alive /\ ~node[n].destroying

MainCall(op, n, arg, w, k) ==
    /\ Commit(Continue(w, k))
    /\ lastM' = Rec(op, n, arg, w)
    /\ lastH' = NoHandler
    /\ UNCHANGED <<race, client, context>>

SetImplementation(n, spa_node) ==
    /\ MainIdle /\ Alive(n)
    /\ MainCall("set_implementation", n, spa_node.id,
                pw_node_set_implementation(World, n, spa_node), <<>>)

Register(n) ==
    /\ MainIdle /\ Alive(n)
    /\ \E gok \in BOOLEAN :
         MainCall("register", n, 0, pw_node_register(World, n, gok), <<>>)

SetState(n, s, kind) ==
    /\ MainIdle /\ Alive(n)
    /\ Len(work[n]) < MaxWork
    /\ \E bres \in BackendRes(n, kind) :
         MainCall("set_state", n, s, pw_node_set_state(World, n, s, bres), <<>>)

SetActive(n, a, kind) ==
    /\ MainIdle /\ Alive(n)
    /\ Len(work[n]) < MaxWork
    /\ \E bres \in BackendRes(n, kind) :
         MainCall("set_active", n, a, pw_node_set_active(World, n, a, bres),
                  IF node[n].active = a THEN <<>> ELSE <<[op |-> "recalc"]>>)

SetDriver(n, d) ==
    /\ MainIdle /\ Alive(n) /\ Alive(d)
    /\ LET w == pw_node_set_driver(World, n, d)
       IN  MainCall("set_driver", n, d, w,
                    IF w.moved
                    THEN <<[op |-> "move", node |-> n, driver |-> d]>> ELSE <<>>)

Destroy(n, kind) ==
    /\ MainIdle /\ Alive(n)
    /\ \E bres \in BackendRes(n, kind), pres \in BackendRes(n, kind) :
         MainCall("destroy", n, 0, DestroyHead(World, n, bres, pres),
                  <<[op |-> "recalc"], [op |-> "free", node |-> n]>>)

\* the main loop runs the work queue of node n
WorkStep(n) ==
    /\ MainIdle /\ Alive(n)
    /\ FirstWaiting(work[n], SPA_ID_INVALID) # 0
    /\ MainCall("work", n, 0, process_work_queue(World, n), <<>>)

\* the backend emits the result of sequence number seq
NodeResult(n, seq, res) ==
    /\ MainIdle /\ Alive(n) /\ node[n].impl
    /\ MainCall("result", n, seq,
                node_result(World, n, SPA_RESULT_RETURN_ASYNC(seq), res), <<>>)

\* the backend announces port p of node n (node_port_info): a port that is
\* not there is added, one that is there is removed
NodePortInfo(n, p) ==
    /\ MainIdle /\ Alive(n) /\ node[n].impl
    /\ MainCall("port_info", n, p,
                node_port_info(World, n, p, 1,
                               IF node[n].ports[p] = "none" THEN "info" ELSE NoInfo),
                <<>>)

\* the backend announces, changes or withdraws port port_id of direction p
NodePortInfoOf(n, p, port_id, info) ==
    /\ MainIdle /\ Alive(n) /\ node[n].impl
    /\ MainCall("port_info", n, [dir |-> p, id |-> port_id, info |-> info],
                node_port_info(World, n, p, port_id, info), <<>>)

\* a module of the server makes a port and adds it to node n (pw_port_new,
\* pw_port_add)
PortAdd(n, p, port_id) ==
    /\ MainIdle /\ Alive(n)
    /\ MainCall("port_add", n, [dir |-> p, id |-> port_id],
                pw_port_add(World, n, p, port_id), <<>>)

\* a client sends command cmd through a resource of node n
NodeSendCommand(n, cmd) ==
    /\ MainIdle /\ Alive(n) /\ node[n].impl
    /\ \E bres \in BackendRes(n, "any") :
         MainCall("send_command", n, cmd, node_send_command(World, n, cmd, bres), <<>>)

\* pw_node_for_each_param while the backend emits the results during
ForEachParam(n, seq, max, during) ==
    /\ MainIdle /\ Alive(n) /\ node[n].impl
    /\ MainCall("for_each_param", n, [seq |-> seq, max |-> max, during |-> during],
                pw_node_for_each_param(World, n, seq, max, during), <<>>)

\* the backend emits a result for seq outside pw_node_for_each_param
BackendResult(n, seq) ==
    /\ MainIdle /\ Alive(n) /\ node[n].impl
    /\ MainCall("backend_result", n, seq,
                spa_node_emit_result(World, n, seq, ResOk), <<>>)

\* the backend emits an Error event
NodeEvent(n) ==
    /\ MainIdle /\ Alive(n) /\ node[n].impl
    /\ MainCall("event", n, 0, node_event(World, n), <<>>)

(* --------------------------- the data loop ---------------------------- *)
\* the invoke queue: do_move_nodes runs between two handlers, and the main
\* thread goes on
DoMoveNodes ==
    /\ pc # <<>> /\ Head(pc).op = "move"
    /\ Commit(Continue(InvokeLeave(do_move_nodes(InvokeEnter(World), Head(pc).node,
                                                 Head(pc).driver),
                                   World),
                       Tail(pc)))
    /\ lastH' = NoHandler
    /\ UNCHANGED <<lastM, race, client, context>>

ReadyEnabled(n) ==
    /\ Alive(n) /\ node[n].impl /\ node[n].started
    /\ rt[n].async \/ node[n].driver \/ node[n].driver_node = n

\* what the backends answer to spa_node_process in one handler: only a node
\* that is scheduled by another node can leave its cycle unfinished
ProcessResults ==
    {st \in [Nodes -> ProcStatus] :
        \A m \in Nodes : st[m] = SPA_STATUS_OK =>
            rt[m].loop /\ node[m].driver_node # m}

\* the backend of node n calls the ready callback; the handler reads the
\* clock at most MaxReads times, and the clock is followed up to MaxTime
NodeReady(n) ==
    /\ ReadyEnabled(n)
    /\ clock + MaxReads <= MaxTime
    /\ \E st \in ProcessResults :
         LET w0 == [World EXCEPT !.rt[n].async = FALSE]
             w  == node_ready(w0, n, st)
         IN  /\ rt' = w.rt
             /\ fault' = w.fault
             /\ clock' = w.now
             /\ lastH' = [kind |-> "ready",
                          root |-> IF node[n].driver_node = n THEN n ELSE NoNode,
                          sig |-> w.sig, missed |-> w.missed,
                          badreset |-> w.badreset]
    /\ UNCHANGED <<node, work, links, pc, lastM, race, client, context>>


(* ---------------------- links (§4.3 of the spec) ---------------------- *)
AllReady(w, n) ==
    /\ n_ready_output_links(w, n) = n_used_output_links(w, n)
    /\ n_ready_input_links(w, n) = n_used_input_links(w, n)

\* pw_link_new between a port of o and a port of i
LinkNew(l, o, i) ==
    /\ MainIdle /\ Alive(o) /\ Alive(i) /\ o # i
    /\ links[l].state = "none"
    /\ links' = [links EXCEPT ![l] = [out |-> o, in |-> i, state |-> "init"]]
    /\ lastM' = Rec("link_new", o, i, World)
    /\ lastH' = NoHandler
    /\ UNCHANGED <<node, work, rt, pc, fault, race, client, context, clock>>

\* the link has negotiated its format and buffers: it becomes ready, and a
\* node whose links are all ready is started
LinkReady(l, kind) ==
    /\ MainIdle
    /\ links[l].state = "init"
    /\ Len(work[links[l].out]) < MaxWork /\ Len(work[links[l].in]) < MaxWork
    /\ \E bo \in BackendRes(links[l].out, kind),
          bi \in BackendRes(links[l].in, kind) :
         LET o  == links[l].out
             i  == links[l].in
             w0 == [World EXCEPT !.links[l].state = "paused"]
             w1 == IF w0.node[o].active /\ w0.node[i].active
                   THEN pw_link_activate(w0, l) ELSE w0
             w2 == IF AllReady(w1, o) /\ w1.node[o].active
                   THEN pw_node_set_state(w1, o, PW_NODE_STATE_RUNNING, bo) ELSE w1
             w3 == IF AllReady(w2, i) /\ w2.node[i].active
                   THEN pw_node_set_state(w2, i, PW_NODE_STATE_RUNNING, bi) ELSE w2
         IN  MainCall("link_ready", o, i, w3, <<>>)

(* --------------------------- specification ---------------------------- *)
Racers == 1..NumRacers
NoRace == [n |-> 0, round |-> 0, pc |-> [r \in Racers |-> "off"]]

InitCommon ==
    /\ work = [n \in Nodes |-> <<>>]
    /\ rt = [n \in Nodes |-> NewRt]
    /\ links = [l \in Links |-> NoLink]
    /\ pc = <<>>
    /\ fault = FALSE
    /\ lastH = NoHandler
    /\ race = NoRace
    /\ client = NoClient
    /\ context = NoContext
    /\ clock = 0

Init ==
    /\ InitCommon
    /\ \E poi \in BOOLEAN, drv \in BOOLEAN :
         node = [n \in Nodes |-> NewNode(n, poi, drv)]
    /\ lastM = NoCall

Next ==
    \/ \E n \in Nodes : SetImplementation(n, DefaultBackend)
    \/ \E n \in Nodes : Register(n)
    \/ \E n \in Nodes, s \in NodeStates : SetState(n, s, "any")
    \/ \E n \in Nodes, a \in BOOLEAN : SetActive(n, a, "any")
    \/ \E n \in Nodes : WorkStep(n)
    \/ \E n \in Nodes, q \in 1..MaxSeq, r \in {ResOk, ResError} : NodeResult(n, q, r)
    \/ \E n \in Nodes : NodeEvent(n)
    \/ \E n \in Nodes, p \in {"in", "out"} : NodePortInfo(n, p)
    \/ \E l \in Links, o \in Nodes, i \in Nodes : LinkNew(l, o, i)
    \/ \E l \in Links : LinkReady(l, "any")
    \/ \E n \in Nodes, d \in Nodes : SetDriver(n, d)
    \/ \E n \in Nodes : Destroy(n, "any")
    \/ DoMoveNodes
    \/ \E n \in Nodes : NodeReady(n)

Spec == Init /\ [][Next]_vars

(* The cycles of one driver.  Every node has its backend, is registered,   *)
(* active and suspended; node 1 is the driver and pw_node_set_driver has    *)
(* made it the driver of the other nodes.  The nodes are started and        *)
(* stopped while the driver runs its cycles.                                *)
CycleDriver == CHOOSE n \in Nodes : \A m \in Nodes : n <= m

CycleNode(n) ==
    [NewNode(n, TRUE, n = CycleDriver) EXCEPT
        !.impl = TRUE, !.spa_node = DefaultBackend.id,
        !.callbacks = DefaultBackend.id, !.position = TRUE, !.clock = TRUE,
        !.registered = TRUE, !.in_list = TRUE, !.global = TRUE,
        !.state = PW_NODE_STATE_SUSPENDED, !.active = TRUE,
        !.driver_node = CycleDriver, !.master = (n = CycleDriver)]

InitCycle ==
    /\ InitCommon
    /\ node = [n \in Nodes |-> CycleNode(n)]
    /\ lastM = Off

NextCycle ==
    \/ \E n \in Nodes, s \in PW_NODE_STATE_IDLE..PW_NODE_STATE_RUNNING :
         SetState(n, s, "sync")
    \/ \E n \in Nodes : WorkStep(n)
    \/ \E n \in Nodes : NodeReady(n)

SpecCycle == InitCycle /\ [][NextCycle]_vars


(* C1: in every cycle of a driver, every target of its list is signalled   *)
(* exactly once.  No target is signalled twice between two resets, and when *)
(* the driver's next ready callback arrives every target that was reset at  *)
(* the start of the cycle has been signalled once; process_node called on   *)
(* the driver because running is still set is the signal of that cycle.     *)
C1_SignalledOnce ==
    /\ \A n \in Nodes : rt[n].cyc # NoNode => rt[n].nsig <= 1
    /\ lastH.missed = {}

\* the driver begins a cycle with itself and every other node in its list;
\* all of them are signalled and one has not yet finished its process call
C1_Witness ==
    /\ lastH.kind = "ready" /\ lastH.root = CycleDriver
    /\ \A n \in Nodes : rt[n].loop /\ rt[n].cyc = CycleDriver
    /\ Nodes \subseteq lastH.sig
    /\ \E n \in Nodes : rt[n].async

(* C2: at cycle start, after node_ready has reset the activations of the    *)
(* driver's list and before resume_node decrements any of them, every       *)
(* target has pending = required = the number of entries that decrement it. *)
C2_ResetToFanIn == lastH.badreset = {}

\* a cycle starts with the driver and both other nodes in the list: the
\* driver's activation has fan-in NumNodes + 1
C2_Witness ==
    /\ lastH.kind = "ready" /\ lastH.root = CycleDriver
    /\ Len(rt[CycleDriver].target_list) = NumNodes + 1
    /\ rt[CycleDriver].required = NumNodes + 1
    /\ \A n \in Nodes \ {CycleDriver} : rt[n].required = 1

(* Stopping and destroying nodes under a running driver.  The nodes are as  *)
(* in SpecCycle, with either value of pause-on-idle and of the active flag; *)
(* the driver has been started (pw_node_set_state and the work queue), the  *)
(* other nodes are started, set to idle or suspended, fail and are          *)
(* destroyed while the driver runs its cycles.                              *)
StopNodes == (CycleDriver + 1)..(CycleDriver + NumStopNodes)

StopNode(n, poi, act) ==
    [CycleNode(n) EXCEPT !.pause_on_idle = poi,
                         !.active = (act \/ n = CycleDriver)]

\* a fresh graph of the nodes nd
FreshWorld(nd) ==
    [node |-> nd, work |-> [n \in Nodes |-> <<>>],
     rt |-> [n \in Nodes |-> NewRt],
     links |-> [l \in Links |-> NoLink], fault |-> FALSE,
     sig |-> {}, ev |-> <<>>, res |-> ResOk, moved |-> FALSE,
     missed |-> {}, badreset |-> {}, now |-> 0, inloop |-> FALSE]

\* the world once driver d has been started: pw_node_set_state and the run
\* of the work queue
StartedDriver(w, d) ==
    process_work_queue(pw_node_set_state(w, d, PW_NODE_STATE_RUNNING, ResOk), d)

InitStop ==
    /\ \E poi \in BOOLEAN, act \in BOOLEAN :
         LET w == StartedDriver(FreshWorld([n \in Nodes |-> StopNode(n, poi, act)]),
                                CycleDriver)
         IN  /\ node = w.node
             /\ work = w.work
             /\ rt = w.rt
             /\ links = w.links
             /\ fault = w.fault
    /\ pc = <<>>
    /\ lastH = NoHandler
    /\ race = NoRace
    /\ client = NoClient
    /\ context = NoContext
    /\ clock = 0
    /\ lastM = Off

NextStop ==
    \/ \E n \in StopNodes, s \in PW_NODE_STATE_SUSPENDED..PW_NODE_STATE_RUNNING :
         SetState(n, s, "sync")
    \/ \E n \in StopNodes : WorkStep(n)
    \/ \E n \in StopNodes : NodeEvent(n)
    \/ \E n \in StopNodes : Destroy(n, "sync")
    \/ \E n \in Nodes : NodeReady(n)

SpecStop == InitStop /\ [][NextStop]_vars


\* node n has an entry in a target list, or entries in its own
Attached(n) ==
    \/ rt[n].target_list # <<>>
    \/ \E m \in Nodes : HasEntry(rt[m].target_list, TargetEntry(n))

(* C4: when a node has been destroyed, in whatever state it was, every     *)
(* activation it fed has had required lowered by what the node had added:   *)
(* required is again the number of entries that decrement the activation,   *)
(* and the next cycle signals the remaining targets once.                   *)
C4_DestroyRestoresRequired ==
    (\E n \in Nodes : rt[n].freed) =>
        /\ \A m \in Nodes : ~rt[m].freed => rt[m].required = FanIn(rt, m)
        /\ lastH.missed = {} /\ lastH.badreset = {}

(* C8: once a node's transition to idle or to suspended has completed, the  *)
(* node is in no target list and no later cycle signals it, for every value *)
(* of pause-on-idle and of the active flag.                                 *)
C8_StoppedNodeDetached ==
    \A n \in Nodes :
        /\ node[n].alive /\ ~node[n].destroying
        /\ node[n].state \in {PW_NODE_STATE_IDLE, PW_NODE_STATE_SUSPENDED}
        /\ work[n] = <<>>
        => ~Attached(n) /\ n \notin lastH.sig

(* C9: when pw_node_destroy has freed the activation block of a node, no    *)
(* target list holds an entry of that node, and the data loop never uses    *)
(* the freed block, in whatever state the node was destroyed.               *)
C9_NoDanglingEntry ==
    /\ \A n \in Nodes : rt[n].freed =>
           \A m \in Nodes : ~HasEntry(rt[m].target_list, TargetEntry(n))
    /\ ~fault

(* The race for one activation state.  In one cycle n threads (or peer      *)
(* processes, the record is in shared memory) each run the loop body of     *)
(* resume_node on the same target: the atomic decrement first, and what the *)
(* caller does with its answer afterwards.  The driver's next ready         *)
(* callback resets the record for another round.                            *)
RaceTarget == CycleDriver

InitRace ==
    /\ node = [n \in Nodes |-> CycleNode(n)]
    /\ work = [n \in Nodes |-> <<>>]
    /\ links = [l \in Links |-> NoLink]
    /\ pc = <<>>
    /\ fault = FALSE
    /\ lastH = NoHandler
    /\ lastM = Off
    /\ clock = 0
    /\ client = NoClient
    /\ context = NoContext
    /\ \E n \in Racers :
         /\ race = [n |-> n, round |-> 1,
                    pc |-> [r \in Racers |-> IF r <= n THEN "dec" ELSE "off"]]
         /\ rt = [m \in Nodes |->
                    IF m = RaceTarget
                    THEN [NewRt EXCEPT !.required = n, !.pending = n,
                                       !.cyc = RaceTarget]
                    ELSE NewRt]

\* racer r does its atomic decrement
RaceDec(r) ==
    /\ race.pc[r] = "dec"
    /\ LET s == DecTarget(rt[RaceTarget])
       IN  /\ rt' = [rt EXCEPT ![RaceTarget] = s.a]
           /\ race' = [race EXCEPT !.pc[r] = IF s.signal THEN "zero" ELSE "done"]
    /\ UNCHANGED <<node, work, links, pc, fault, lastH, lastM, client, context, clock>>

\* the racer that was told "reached zero" sets the status and signals
RaceSignal(r) ==
    /\ race.pc[r] = "zero"
    /\ rt' = NoteSignal([World EXCEPT !.rt[RaceTarget].status = TRIGGERED],
                        RaceTarget).rt
    /\ race' = [race EXCEPT !.pc[r] = "signalled"]
    /\ UNCHANGED <<node, work, links, pc, fault, lastH, lastM, client, context, clock>>

\* the next cycle: the record is reset and the racers decrement again
RaceReset ==
    /\ \A r \in Racers : race.pc[r] \in {"off", "done", "signalled"}
    /\ race.round < MaxRounds
    /\ rt' = ResetLoop(World, RaceTarget, <<TargetEntry(RaceTarget)>>, 1).rt
    /\ race' = [race EXCEPT !.round = @ + 1,
                            !.pc = [r \in Racers |->
                                       IF race.pc[r] = "off" THEN "off" ELSE "dec"]]
    /\ UNCHANGED <<node, work, links, pc, fault, lastH, lastM, client, context, clock>>

NextRace ==
    \/ \E r \in Racers : RaceDec(r)
    \/ \E r \in Racers : RaceSignal(r)
    \/ RaceReset

SpecRace == InitRace /\ [][NextRace]_vars

\* the racers that were told "reached zero" in this round
Observers == {r \in Racers : race.pc[r] \in {"zero", "signalled"}}

(* C3: of the n concurrent decrements of one activation state that starts  *)
(* a cycle with pending = required = n, exactly one is told that pending    *)
(* reached zero, and so exactly one caller sets the status to triggered and *)
(* signals the target, in every interleaving.                               *)
C3_OneObserver ==
    /\ Cardinality(Observers) <= 1
    /\ rt[RaceTarget].nsig <= 1
    /\ (\A r \in Racers : race.pc[r] # "dec") => Cardinality(Observers) = 1
    /\ (\A r \in Racers : race.pc[r] \in {"off", "done", "signalled"}) =>
           /\ rt[RaceTarget].nsig = 1
           /\ rt[RaceTarget].status = TRIGGERED

\* every racer has decremented, in the second round, and the one that was
\* first in the list is the one that signalled
C3_Witness ==
    /\ race.n = NumRacers /\ race.round = MaxRounds
    /\ \A r \in Racers : race.pc[r] \in {"done", "signalled"}
    /\ race.pc[1] = "signalled"


(* The life of a node on the main thread, from pw_node_new on: it gets its  *)
(* backend, is registered, its ports are announced, its state is changed,   *)
(* and the backend answers at once, with an error or with a result later.   *)
LifeNodes == 1..NumLifeNodes

InitLife ==
    /\ InitCommon
    /\ \E poi \in BOOLEAN :
         node = [n \in Nodes |-> NewNode(n, poi, FALSE)]
    /\ lastM = NoCall

NextLife ==
    \/ \E n \in LifeNodes : SetImplementation(n, DefaultBackend)
    \/ \E n \in LifeNodes : Register(n)
    \/ \E n \in LifeNodes, s \in NodeStates : SetState(n, s, "any")
    \/ \E n \in LifeNodes, a \in BOOLEAN : SetActive(n, a, "any")
    \/ \E n \in LifeNodes, p \in {"in"} : NodePortInfo(n, p)
    \/ \E n \in LifeNodes : WorkStep(n)
    \/ \E n \in LifeNodes, q \in 1..MaxSeq, r \in {ResOk, ResError} :
         NodeResult(n, q, r)
    \/ \E n \in LifeNodes : NodeEvent(n)

SpecLife == InitLife /\ [][NextLife]_vars


(* C5: a node that has no backend stays in the creating state, whatever is  *)
(* called on it before pw_node_set_implementation.                          *)
C5_NoBackendStaysCreating ==
    \A n \in Nodes :
        node[n].alive /\ ~node[n].impl => node[n].state = PW_NODE_STATE_CREATING

\* a work item that waits for the result of a sequence number
Waits(item) == item.seq # SPA_ID_INVALID

\* the call of this step queued an item that waits for a result, for a
\* state other than those of skip, and the state of node n changed
AsyncCallChangedState(n, skip) ==
    /\ Len(work'[n]) = Len(work[n]) + 1
    /\ Waits(work'[n][Len(work'[n])])
    /\ work'[n][Len(work'[n])].data \notin skip
    /\ node'[n].state # node[n].state

\* the result of this step did something else than to complete the first
\* item that waits for its sequence number with the state the item asked for
ResultMisapplied(n) ==
    /\ lastM'.op = "result" /\ lastM'.n = n
    /\ LET i == FirstWaiting(work[n], lastM'.arg)
       IN  IF i = 0
           THEN node'[n].state # node[n].state \/ work'[n] # work[n]
           ELSE \/ work'[n] # DropAt(work[n], i)
                \/ node'[n].state #
                       (IF SPA_RESULT_IS_ERROR(node'[n].last_error)
                        THEN PW_NODE_STATE_ERROR ELSE work[n][i].data)

(* C10 as stated: whatever state is asked for, a call that the backend      *)
(* answers asynchronously leaves the node's state as it was, and the state  *)
(* is updated by the result with the matching sequence number only.         *)
C10_AsyncKeepsState ==
    [][\A n \in Nodes : /\ ~AsyncCallChangedState(n, {})
                        /\ ~ResultMisapplied(n)]_vars

(* C10, amended: a call for idle or running that the backend answers        *)
(* asynchronously leaves the node's state as it was; a result whose         *)
(* sequence number no item waits for changes nothing; the result an item    *)
(* waits for removes the item and sets the state the item asked for, or     *)
(* error.  A call for suspended updates the state in the call.              *)
C10_AsyncKeepsStateButSuspend ==
    [][\A n \in Nodes : /\ ~AsyncCallChangedState(n, {PW_NODE_STATE_SUSPENDED})
                        /\ ~ResultMisapplied(n)]_vars

\* the backend has answered Start asynchronously: the item waits and the
\* node is still idle
C10_Witness ==
    \E n \in LifeNodes :
        /\ lastM.op = "set_state" /\ lastM.n = n
        /\ lastM.arg = PW_NODE_STATE_RUNNING
        /\ SPA_RESULT_IS_ASYNC(lastM.res)
        /\ node[n].state = PW_NODE_STATE_IDLE
        /\ Len(work[n]) = 1 /\ Waits(work[n][1])
        /\ work[n][1].data = PW_NODE_STATE_RUNNING


(* Links and the start of a node.  The nodes are as in SpecCycle; a link is *)
(* made between two of them and becomes ready, and the nodes are started    *)
(* and set to idle.                                                         *)
NextLink ==
    \/ \E l \in Links, o \in Nodes, i \in Nodes : LinkNew(l, o, i)
    \/ \E l \in Links : LinkReady(l, "sync")
    \/ \E n \in Nodes, s \in PW_NODE_STATE_IDLE..PW_NODE_STATE_RUNNING :
         SetState(n, s, "sync")
    \/ \E n \in Nodes : WorkStep(n)

SpecLink == InitCycle /\ [][NextLink]_vars

(* C6: a node whose start was put off because its ready link counts differ  *)
(* from its used link counts has been sent no Start, is not running and is  *)
(* in no target list; a running active node whose links are all ready has   *)
(* been started.                                                            *)
C6_StartDeferred ==
    \A n \in Nodes :
        /\ node[n].deferred =>
               /\ node[n].state # PW_NODE_STATE_RUNNING
               /\ ~rt[n].loop
               /\ ~node[n].started
        /\ node[n].state = PW_NODE_STATE_RUNNING /\ node[n].active
               /\ AllReady(World, n)
           => node[n].started

(* Moving a node between two drivers.  The first two nodes are drivers and  *)
(* have been started; the other nodes follow the first driver, are started  *)
(* and stopped, and pw_node_set_driver moves them from one driver to the    *)
(* other while both drivers run their cycles.                               *)
MoveDrivers == {CycleDriver, CycleDriver + 1}
Movers == Nodes \ MoveDrivers

MoveNode(n) ==
    IF n \in MoveDrivers
    THEN [CycleNode(n) EXCEPT !.driver = TRUE, !.driver_node = n, !.master = TRUE]
    ELSE CycleNode(n)

InitMove ==
    /\ LET w == StartedDriver(StartedDriver(FreshWorld([n \in Nodes |-> MoveNode(n)]),
                                            CycleDriver),
                              CycleDriver + 1)
       IN  /\ node = w.node
           /\ work = w.work
           /\ rt = w.rt
           /\ links = w.links
           /\ fault = w.fault
    /\ pc = <<>>
    /\ lastH = NoHandler
    /\ race = NoRace
    /\ client = NoClient
    /\ context = NoContext
    /\ clock = 0
    /\ lastM = Off

NextMove ==
    \/ \E a \in Movers, d \in MoveDrivers : SetDriver(a, d)
    \/ DoMoveNodes
    \/ \E a \in Movers, s \in PW_NODE_STATE_IDLE..PW_NODE_STATE_RUNNING :
         SetState(a, s, "sync")
    \/ \E a \in Movers : WorkStep(a)
    \/ \E n \in Nodes : NodeReady(n)

SpecMove == InitMove /\ [][NextMove]_vars

(* C7: a handler signals a node that pw_node_set_driver moves only when it  *)
(* is a cycle of the driver whose list holds the node's entry, and the      *)
(* entry changes lists when do_move_nodes runs: once the main thread is     *)
(* past the invoke the list is that of the new driver, so no cycle of the   *)
(* old driver that starts afterwards signals the node, and no cycle of the  *)
(* new driver signals it before.                                            *)
C7_SignalFollowsList ==
    /\ \A a \in Movers :
           a \in lastH.sig =>
               /\ lastH.root # NoNode
               /\ lastH.root = rt[a].driver_target
               /\ HasEntry(rt[lastH.root].target_list, TargetEntry(a))
    /\ \A a \in Movers :
           rt[a].loop =>
               rt[a].driver_target =
                   (IF pc # <<>> /\ Head(pc).op = "move" /\ Head(pc).node = a
                    THEN ListOf(rt, TargetEntry(a)) ELSE node[a].driver_node)

\* a node was moved to the second driver and has been through a cycle of
\* it; the first driver has just started a cycle and did not signal the node
C7_Witness ==
    \E a \in Movers :
        /\ pc = <<>> /\ rt[a].loop
        /\ node[a].driver_node = CycleDriver + 1
        /\ rt[a].cyc = CycleDriver + 1
        /\ lastH.kind = "ready" /\ lastH.root = CycleDriver
        /\ a \notin lastH.sig


(* C11: when the backend's result callback delivers an error for the        *)
(* sequence number a work item waits for, the item is completed and         *)
(* removed, the node is in the error state and not in the state the item    *)
(* asked for, and info.error is not empty.                                  *)
C11_AsyncErrorToErrorState ==
    [][\A n \in Nodes :
          /\ lastM'.op = "result" /\ lastM'.n = n
          /\ FirstWaiting(work[n], lastM'.arg) # 0
          /\ SPA_RESULT_IS_ERROR(node'[n].last_error)
          => /\ work'[n] = DropAt(work[n], FirstWaiting(work[n], lastM'.arg))
             /\ node'[n].state = PW_NODE_STATE_ERROR
             /\ node'[n].error # ""]_vars

(* Requests that overtake each other.  A node that has its backend, is      *)
(* registered and active gets state requests while completions of earlier   *)
(* requests are still in its work queue; the commands and events of every   *)
(* call are recorded.                                                       *)
QueueNodes == 1..NumQueueNodes
NoCallEv == [op |-> "none", ev |-> <<>>]

\* the world once node n has its backend, is registered and is active
ReadyNode(w, n) ==
    pw_node_set_active(
        pw_node_register(pw_node_set_implementation(w, n, DefaultBackend), n, TRUE),
        n, TRUE, ResOk)

InitQueue ==
    /\ \E poi \in BOOLEAN :
         LET w == ReadyNode(FreshWorld([n \in Nodes |-> NewNode(n, poi, FALSE)]), 1)
         IN  /\ node = w.node
             /\ work = w.work
             /\ rt = w.rt
             /\ links = w.links
             /\ fault = w.fault
    /\ pc = <<>>
    /\ lastH = NoHandler
    /\ race = NoRace
    /\ client = NoClient
    /\ context = NoContext
    /\ clock = 0
    /\ lastM = NoCallEv

\* pw_node_set_state while up to MaxPending completions are queued
SetStateQueued(n, s, kind) ==
    /\ MainIdle /\ Alive(n)
    /\ Len(work[n]) < MaxPending
    /\ \E bres \in BackendRes(n, kind) :
         MainCall("set_state", n, s, pw_node_set_state(World, n, s, bres), <<>>)

NextQueue ==
    \/ \E n \in QueueNodes, s \in PW_NODE_STATE_SUSPENDED..PW_NODE_STATE_RUNNING :
         SetStateQueued(n, s, "any")
    \/ \E n \in QueueNodes : WorkStep(n)
    \/ \E n \in QueueNodes, q \in 1..MaxSeq, r \in {ResOk, ResError} :
         NodeResult(n, q, r)

SpecQueue == InitQueue /\ [][NextQueue]_vars

\* the states the call recorded in r changed the node to, in order
StatesEntered(r) ==
    LET RECURSIVE F(_)
        F(es) == IF es = <<>> THEN <<>>
                 ELSE IF Head(es).e = "state_changed"
                 THEN <<Head(es).state>> \o F(Tail(es))
                 ELSE F(Tail(es))
    IN  F(r.ev)

\* the commands the call recorded in r sent to the backend, in order
CommandsSent(r) ==
    LET RECURSIVE F(_)
        F(es) == IF es = <<>> THEN <<>>
                 ELSE IF Head(es).e = "command"
                 THEN <<Head(es).cmd>> \o F(Tail(es))
                 ELSE F(Tail(es))
    IN  F(r.ev)

(* C12: when set_state(s1) is followed by set_state(s2) before the          *)
(* completion for s1 has run, the completion for s1 is never applied: a run *)
(* of the work queue or a backend result changes the node only to the state *)
(* of the newest queued request (or to error), never to a superseded one.   *)
C12_SupersededDropped ==
    [][\A n \in QueueNodes :
          /\ lastM'.op \in {"work", "result"} /\ lastM'.n = n
          /\ work[n] # <<>>
          => \A i \in DOMAIN StatesEntered(lastM') :
                 StatesEntered(lastM')[i] \in
                     {work[n][Len(work[n])].data, PW_NODE_STATE_ERROR}]_vars

(* C13: set_state(s) called again right after a successful set_state(s),    *)
(* before the first completion has run, sends the backend no command and    *)
(* changes no state: twice is the same as once.                             *)
C13_SetStateIdempotent ==
    [][\A n \in QueueNodes :
          /\ lastM.op = "set_state" /\ lastM.n = n
          /\ ~SPA_RESULT_IS_ERROR(lastM.res)
          /\ lastM'.op = "set_state" /\ lastM'.n = n /\ lastM'.arg = lastM.arg
          => /\ CommandsSent(lastM') = <<>>
             /\ StatesEntered(lastM') = <<>>
             /\ node'[n].state = node[n].state]_vars


(* C14: when the driver wakes for the next cycle and its running flag is    *)
(* still set, it signals its own target (the kick, after the dump of the    *)
(* timestamps), every target of its list is then reset to its fan-in and    *)
(* is not triggered or signalled once in the new cycle, and every           *)
(* target is signalled exactly once per cycle: the unfinished cycle counts  *)
(* the kick, and the cycles after it lose or repeat no signal when nodes of *)
(* the unfinished cycle complete late.                                      *)
C14_KickAndRestart ==
    [][\A d \in Nodes :
          lastH'.kind = "ready" /\ lastH'.root = d =>
             /\ lastH'.missed = {}
             /\ rt[d].running =>
                  /\ d \in lastH'.sig
                  /\ lastH'.badreset = {}
                  /\ \A i \in 1..Len(rt'[d].target_list) :
                       LET m == EntryNode([rt |-> rt'], rt'[d].target_list[i])
                       IN  /\ rt'[m].cyc = d
                           /\ rt'[m].nsig <= 1
                           /\ (m # d /\ rt'[m].nsig = 0) =>
                                  rt'[m].status = NOT_TRIGGERED]_vars

\* the driver woke with running still set: it was signalled by the kick
\* only, before the reset, and the new cycle waits for a node that has not
\* finished its process call
C14_Witness ==
    /\ lastH.kind = "ready" /\ lastH.root = CycleDriver
    /\ CycleDriver \in lastH.sig
    /\ rt[CycleDriver].nsig = 0
    /\ rt[CycleDriver].running
    /\ Len(rt[CycleDriver].target_list) = NumNodes + 1
    /\ \E n \in Nodes : rt[n].async /\ rt[n].nsig = 1

(* The timestamps of the cycles.  One driver and the other nodes, each fed  *)
(* by the driver alone, have all been started; the driver wakes again and   *)
(* again, a node may leave its process call unfinished and complete it      *)
(* later, and the data loop reads a clock that moves on at every reading.   *)
RECURSIVE StartedAll(_, _)
StartedAll(w, n) ==
    IF n > NumNodes THEN w ELSE StartedAll(StartedDriver(w, n), n + 1)

InitClock ==
    /\ LET w == StartedAll(FreshWorld([n \in Nodes |-> CycleNode(n)]), 1)
       IN  /\ node = w.node
           /\ work = w.work
           /\ rt = w.rt
           /\ links = w.links
           /\ fault = w.fault
    /\ pc = <<>>
    /\ lastH = NoHandler
    /\ race = NoRace
    /\ client = NoClient
    /\ context = NoContext
    /\ lastM = Off
    /\ clock = 1

NextClock == \E n \in Nodes : NodeReady(n)

SpecClock == InitClock /\ [][NextClock]_vars

\* the driver of the graph has completed a cycle
CycleCompleted ==
    /\ lastH.kind = "ready"
    /\ rt[CycleDriver].cyc = CycleDriver
    /\ ~rt[CycleDriver].running

(* C15: with one driver and two independent sinks, when a cycle has         *)
(* completed both sinks have been signalled exactly once in it, and the     *)
(* timestamps of every target satisfy signal_time <= awake_time <=          *)
(* finish_time on a clock that only moves forward, in every cycle.          *)
C15_TimestampsOrdered ==
    CycleCompleted =>
        \A m \in Nodes :
            /\ rt[m].nsig = 1
            /\ rt[m].signal_time <= rt[m].awake_time
            /\ rt[m].awake_time <= rt[m].finish_time

(* C16: a cycle ends only when all targets report finished: a handler that *)
(* leaves the driver's running flag cleared leaves every other target of    *)
(* the driver's list with status finished.                                  *)
C16_EndsWhenAllFinished ==
    [][\A d \in Nodes :
          /\ node[d].driver_node = d
          /\ rt[d].running /\ ~rt'[d].running
          => \A i \in 1..Len(rt'[d].target_list) :
                 rt'[EntryNode([rt |-> rt'], rt'[d].target_list[i])].status
                     = FINISHED]_vars

(* Cycles whose nodes all finish inside process().  The driver has been     *)
(* started with no other target than itself; the other nodes are started    *)
(* and set to idle while it cycles, no process() returns SPA_STATUS_OK, and *)
(* the driver's backend keeps calling the ready callback.                   *)
NodeReadySync(n) ==
    /\ \A m \in Nodes : ~rt[m].async
    /\ ReadyEnabled(n)
    /\ LET w == node_ready(World, n, [m \in Nodes |-> SPA_STATUS_HAVE_BUFFER])
       IN  /\ rt' = w.rt
           /\ fault' = w.fault
           /\ clock' = w.now
           /\ lastH' = [kind |-> "ready",
                        root |-> IF node[n].driver_node = n THEN n ELSE NoNode,
                        sig |-> w.sig, missed |-> w.missed,
                        badreset |-> w.badreset]
    /\ UNCHANGED <<node, work, links, pc, lastM, race, client, context>>

InitFair == InitStop

NextFair ==
    \/ \E n \in Nodes \ {CycleDriver},
          s \in PW_NODE_STATE_IDLE..PW_NODE_STATE_RUNNING : SetState(n, s, "sync")
    \/ \E n \in Nodes : WorkStep(n)
    \/ \E n \in Nodes : NodeReadySync(n)

SpecFair ==
    InitFair /\ [][NextFair]_vars /\ WF_vars(NodeReadySync(CycleDriver))

\* every target of the list of d has finished and d is not running
AllFinished(r, d) ==
    /\ ~r[d].running
    /\ \A i \in 1..Len(r[d].target_list) :
           r[EntryNode([rt |-> r], r[d].target_list[i])].status = FINISHED

(* C17: when no process() returns SPA_STATUS_OK, every cycle the driver     *)
(* starts completes: a signalled node is processed by a direct call, so the *)
(* ready callback of the driver that starts a cycle returns with every      *)
(* target of its list finished and running cleared, also when the driver is *)
(* alone in its list.                                                       *)
C17_CyclesComplete ==
    [][(lastH'.kind = "ready" /\ lastH'.root = CycleDriver)
           => AllFinished(rt', CycleDriver)]_vars

\* a cycle of the driver alone has completed
C17_Witness ==
    /\ lastH.kind = "ready" /\ lastH.root = CycleDriver
    /\ lastH.sig = {CycleDriver}
    /\ Len(rt[CycleDriver].target_list) = 2
    /\ AllFinished(rt, CycleDriver)

(* An exported node in the graph.  The last node is signalled from another *)
(* process through shared memory: its exported flag is set (by the code     *)
(* that exports it, which sets nothing else of the node's scheduling        *)
(* state).  All nodes have been started, the driver cycles, and process()   *)
(* of the exported node always reports SPA_STATUS_OK.                       *)
ExportedNode == NumNodes

InitExport ==
    /\ LET w == StartedAll(FreshWorld([n \in Nodes |->
                    [CycleNode(n) EXCEPT !.exported = (n = ExportedNode)]]), 1)
       IN  /\ node = w.node
           /\ work = w.work
           /\ rt = w.rt
           /\ links = w.links
           /\ fault = w.fault
    /\ pc = <<>>
    /\ lastH = NoHandler
    /\ race = NoRace
    /\ client = NoClient
    /\ context = NoContext
    /\ lastM = Off
    /\ clock = 1

\* the ready callback of node n, in a handler where process() of the
\* exported node reports SPA_STATUS_OK
NodeReadyExported(n) ==
    /\ ReadyEnabled(n)
    /\ clock + MaxReads <= MaxTime
    /\ \E st \in {t \in ProcessResults : t[ExportedNode] = SPA_STATUS_OK} :
         LET w0 == [World EXCEPT !.rt[n].async = FALSE]
             w  == node_ready(w0, n, st)
         IN  /\ rt' = w.rt
             /\ fault' = w.fault
             /\ clock' = w.now
             /\ lastH' = [kind |-> "ready",
                          root |-> IF node[n].driver_node = n THEN n ELSE NoNode,
                          sig |-> w.sig, missed |-> w.missed,
                          badreset |-> w.badreset]
    /\ UNCHANGED <<node, work, links, pc, lastM, race, client, context>>

NextExport == \E n \in Nodes : NodeReadyExported(n)

SpecExport == InitExport /\ [][NextExport]_vars

\* the nodes other than x and d that a handler has signalled and that have
\* triggered their peers in it
FinishedIn(h, r, x, d) ==
    {m \in Nodes \ {x, d} : m \in h.sig /\ r[m].status = FINISHED}

CountEntry(list, e) == Cardinality({i \in 1..Len(list) : list[i] = e})

(* C19: whenever the main thread is between two calls, required of every    *)
(* activation is its fan-in, the number of target entries in all lists that *)
(* decrement it; the list of a running driver holds the driver twice, as    *)
(* its driver entry and as its node entry, and every other running node     *)
(* (in state running with no transition waiting in its work queue) has one  *)
(* entry in its driver's list and one driver entry in its own list; after   *)
(* any sequence of start, pause, suspend, error, set_driver and destroy.    *)
C19_RequiredIsFanIn ==
    MainIdle =>
        /\ \A m \in Nodes : ~rt[m].freed => rt[m].required = FanIn(rt, m)
        /\ \A n \in Nodes :
               Alive(n) /\ node[n].state = PW_NODE_STATE_RUNNING /\ work[n] = <<>> =>
                   LET d == node[n].driver_node
                   IN  /\ ~rt[d].freed
                       /\ CountEntry(rt[d].target_list, TargetEntry(n)) = 1
                       /\ CountEntry(rt[n].target_list, DriverTargetEntry(n)) = 1

(* Who drives whom.  Nodes as pw_node_new leaves them, with or without the  *)
(* node.driver property, get their backend; then drivers are assigned with  *)
(* pw_node_set_driver and the node.driver property is updated.              *)
\* the properties are updated: afterwards node.pause-on-idle has one of the
\* values pois and node.driver one of the values drvs
UpdateProperties(n, pois, drvs) ==
    /\ MainIdle /\ Alive(n)
    /\ \E poi \in pois, drv \in drvs :
         MainCall("update_properties", n, [poi |-> poi, drv |-> drv],
                  pw_node_update_properties(World, n, poi, drv),
                  <<>>)

InitDriver ==
    /\ InitCommon
    /\ \E drv \in [Nodes -> BOOLEAN] :
         node = [n \in Nodes |->
                    pw_node_set_implementation(
                        FreshWorld([m \in Nodes |-> NewNode(m, TRUE, drv[m])]),
                        n, DefaultBackend).node[n]]
    /\ lastM = Off

NextDriver ==
    \/ \E n \in Nodes, d \in Nodes : SetDriver(n, d)
    \/ DoMoveNodes
    \/ \E n \in Nodes :
         UpdateProperties(n, {BoolProp(node[n].pause_on_idle)}, {"true", "false"})

SpecDriver == InitDriver /\ [][NextDriver]_vars

(* C20: in every state from pw_node_new on, and after any sequence of       *)
(* pw_node_set_driver and updates of the node.driver property, the master   *)
(* flag of a node is set exactly when the node is its own driver_node and   *)
(* its driver flag is set.                                                  *)
C20_MasterIsSelfDriver ==
    \A n \in Nodes :
        node[n].alive =>
            node[n].master = (node[n].driver_node = n /\ node[n].driver)


(* Which thread writes the target lists.  The graph of SpecMove; the main   *)
(* thread starts and stops the followers, changes their active flag, moves  *)
(* them between the two drivers and destroys them, while the data loop runs *)
(* the invoke queue and the cycles of both drivers.                         *)
NextThread ==
    \/ \E a \in Movers, d \in MoveDrivers : SetDriver(a, d)
    \/ DoMoveNodes
    \/ \E a \in Movers, s \in PW_NODE_STATE_SUSPENDED..PW_NODE_STATE_RUNNING :
         SetState(a, s, "sync")
    \/ \E a \in Movers, b \in BOOLEAN : SetActive(a, b, "sync")
    \/ \E a \in Movers : WorkStep(a)
    \/ \E a \in Movers : Destroy(a, "sync")
    \/ \E n \in Nodes : NodeReady(n)

SpecThread == InitMove /\ [][NextThread]_vars

(* C21: every insertion into and removal from a target list, with the      *)
(* adjustment of the required counters that goes with it, is made by a     *)
(* callback of the invoke queue on the data-loop thread: no node has a     *)
(* list write made directly by pw_node_set_state, pw_node_set_driver,      *)
(* pw_node_set_active or pw_node_destroy on the main thread.               *)
C21_ListsWrittenOnLoop == \A n \in Nodes : ~rt[n].offloop

\* a follower has been started and moved to the second driver: its entries
\* were written by do_node_add and do_move_nodes
C21_Witness ==
    \E a \in Movers :
        /\ rt[a].loop /\ ~rt[a].freed
        /\ \E e \in 1..Len(rt[CycleDriver + 1].target_list) :
               rt[CycleDriver + 1].target_list[e] = TargetEntry(a)
        /\ \A n \in Nodes : ~rt[n].offloop


(* Registering nodes.  Nodes as pw_node_new leaves them get their backend,  *)
(* the backend announces and withdraws ports, and the nodes are registered, *)
(* once or again, with pw_global_new succeeding or failing; the events of   *)
(* every call are recorded.                                                 *)
InitRegister ==
    /\ InitCommon
    /\ \E poi \in BOOLEAN :
         node = [n \in Nodes |-> NewNode(n, poi, FALSE)]
    /\ lastM = NoCallEv

NextRegister ==
    \/ \E n \in Nodes : SetImplementation(n, DefaultBackend)
    \/ \E n \in Nodes, p \in {"in", "out"} : NodePortInfo(n, p)
    \/ \E n \in Nodes : Register(n)

SpecRegister == InitRegister /\ [][NextRegister]_vars

\* the events of the kind k in the record r of a call, in order
EventsOf(r, k) == SelectSeq(r.ev, LAMBDA e : e.e = k)

\* the port registrations a register of a node with the ports ps makes
PortsRegistered(ps) ==
    (IF ps["in"] = "none" THEN <<>> ELSE <<[e |-> "port_register", p |-> "in"]>>)
    \o (IF ps["out"] = "none" THEN <<>> ELSE <<[e |-> "port_register", p |-> "out"]>>)

NumBackends == 2
Backends ==
    {Backend(b, pos, clk) : b \in 1..NumBackends, pos \in BOOLEAN, clk \in BOOLEAN}

InitImpl ==
    /\ InitCommon
    /\ node = [n \in Nodes |-> NewNode(n, TRUE, FALSE)]
    /\ lastM = NoCall

NextImpl == \E n \in Nodes, b \in Backends : SetImplementation(n, b)

SpecImpl == InitImpl /\ [][NextImpl]_vars

NumActiveNodes == 1
ActiveNodes == 1..NumActiveNodes

InitActive ==
    /\ \E poi \in BOOLEAN :
         LET w == ReadyNode(ReadyNode(
                      FreshWorld([n \in Nodes |-> NewNode(n, poi, FALSE)]), 1), 2)
         IN  /\ node = w.node
             /\ work = w.work
             /\ rt = w.rt
             /\ links = w.links
             /\ fault = w.fault
    /\ pc = <<>>
    /\ lastH = NoHandler
    /\ race = NoRace
    /\ client = NoClient
    /\ context = NoContext
    /\ clock = 0
    /\ lastM = NoCallEv

NextActive ==
    \/ \E n \in ActiveNodes, a \in BOOLEAN : SetActive(n, a, "any")
    \/ \E n \in ActiveNodes, s \in PW_NODE_STATE_IDLE..PW_NODE_STATE_RUNNING :
         SetState(n, s, "any")
    \/ \E n \in ActiveNodes : WorkStep(n)
    \/ \E n \in ActiveNodes, q \in 1..MaxSeq, r \in {ResOk, ResError} :
         NodeResult(n, q, r)
    \/ \E l \in Links : LinkNew(l, 1, 2)
    \/ \E l \in Links : LinkReady(l, "sync")
    \/ \E n \in ActiveNodes : UpdateProperties(n, PropValues, {NoProp})

SpecActive == InitActive /\ [][NextActive]_vars

\* the work queue of node n holds a transition to state s that is still to
\* complete
TransitionQueued(q, s) == \E i \in 1..Len(q) : q[i].data = s

(* C24: pw_node_set_active(false) on an active node forces the transition   *)
(* to idle: a node that was running is idle, or has the transition to idle  *)
(* in its work queue, whatever pause-on-idle is; pw_node_set_active(true)   *)
(* on an inactive node leaves none of the node's links paused and calls     *)
(* pw_core_recalc_graph; a call with the value the node has changes nothing *)
(* and emits nothing.                                                       *)
C24_SetActive ==
    [][\A n \in Nodes :
         (lastM'.op = "set_active" /\ lastM'.n = n) =>
             IF node[n].active = lastM'.arg
             THEN lastM'.ev = <<>> /\ UNCHANGED <<node, work, rt, links>>
             ELSE IF ~lastM'.arg
             THEN /\ ~node'[n].active
                  /\ node[n].state = PW_NODE_STATE_RUNNING =>
                         \/ node'[n].state = PW_NODE_STATE_IDLE
                         \/ TransitionQueued(work'[n], PW_NODE_STATE_IDLE)
             ELSE /\ node'[n].active
                  /\ \A l \in Links :
                         (links[l].state = "paused"
                          /\ (links[l].out = n \/ links[l].in = n)) =>
                             links'[l].state = "active"
                  /\ EventsOf(lastM', "recalc_graph") # <<>>]_vars


(* C25: a node never goes back to creating.  pw_node_set_state(creating)    *)
(* on a node in another state returns an error, queues no work and leaves   *)
(* the node as it is, and no call of SpecLife takes a node that is not in   *)
(* creating to creating.                                                    *)
C25_NeverBackToCreating ==
    [][\A n \in LifeNodes :
         (node[n].alive /\ node'[n].alive
          /\ node[n].state # PW_NODE_STATE_CREATING) =>
             /\ node'[n].state # PW_NODE_STATE_CREATING
             /\ (lastM'.op = "set_state" /\ lastM'.n = n
                 /\ lastM'.arg = PW_NODE_STATE_CREATING) =>
                    /\ SPA_RESULT_IS_ERROR(lastM'.res)
                    /\ work' = work
                    /\ node' = node]_vars

\* a node that is idle was asked to go to creating
C25_Witness ==
    /\ lastM.op = "set_state" /\ lastM.arg = PW_NODE_STATE_CREATING
    /\ SPA_RESULT_IS_ERROR(lastM.res)
    /\ node[lastM.n].state = PW_NODE_STATE_IDLE


(* Suspending and failing a node.  A node that has its backend, and is      *)
(* either still in creating or registered and active, gets and loses        *)
(* ports, has its state changed by the server, is sent commands by a client *)
(* and gets Error events from its backend; the backend and the ports answer *)
(* at once, with an error, or later.  The commands and events of every call *)
(* are recorded.                                                            *)
InitSuspend ==
    /\ \E poi \in BOOLEAN, reg \in BOOLEAN :
         LET w0 == FreshWorld([n \in Nodes |-> NewNode(n, poi, FALSE)])
             w  == IF reg THEN ReadyNode(w0, 1)
                   ELSE pw_node_set_implementation(w0, 1, DefaultBackend)
         IN  /\ node = w.node
             /\ work = w.work
             /\ rt = w.rt
             /\ links = w.links
             /\ fault = w.fault
    /\ pc = <<>>
    /\ lastH = NoHandler
    /\ race = NoRace
    /\ client = NoClient
    /\ context = NoContext
    /\ clock = 0
    /\ lastM = NoCallEv

NextSuspend ==
    \/ \E n \in LifeNodes, p \in {"in", "out"} : NodePortInfo(n, p)
    \/ \E n \in LifeNodes, s \in NodeStates : SetState(n, s, "any")
    \/ \E n \in LifeNodes, cmd \in {"Suspend", "Pause"} : NodeSendCommand(n, cmd)
    \/ \E n \in LifeNodes : WorkStep(n)
    \/ \E n \in LifeNodes, q \in 1..MaxSeq, r \in {ResOk, ResError} :
         NodeResult(n, q, r)
    \/ \E n \in LifeNodes : NodeEvent(n)

SpecSuspend == InitSuspend /\ [][NextSuspend]_vars

(* C26: when pw_node_set_state(suspended) is called on a node in another    *)
(* state, or a client sends the Suspend command, the call leaves the node   *)
(* suspended and every port the node has in the port state configure,       *)
(* whatever pw_port_set_param answered (done, an error, or a result that    *)
(* comes later).                                                            *)
C26_SuspendConfiguresPorts ==
    [][\A n \in LifeNodes :
         (/\ lastM'.n = n
          /\ \/ /\ lastM'.op = "set_state"
                /\ lastM'.arg = PW_NODE_STATE_SUSPENDED
                /\ node[n].state # PW_NODE_STATE_SUSPENDED
             \/ lastM'.op = "send_command" /\ lastM'.arg = "Suspend") =>
             /\ node'[n].state = PW_NODE_STATE_SUSPENDED
             /\ \A p \in DOMAIN node[n].ports :
                    node[n].ports[p] # "none" => node'[n].ports[p] = "configure"]_vars

\* a running node with both ports was suspended and unsetting the format
\* failed
C26_Witness ==
    /\ lastM.op = "set_state" /\ lastM.arg = PW_NODE_STATE_SUSPENDED
    /\ SPA_RESULT_IS_ERROR(lastM.res)
    /\ node[lastM.n].state = PW_NODE_STATE_SUSPENDED
    /\ node[lastM.n].started
    /\ \A p \in {"in", "out"} : node[lastM.n].ports[p] = "configure"


\* the call recorded in r sent the Pause command to the backend
PauseSent(r) == \E i \in 1..Len(r.ev) : r.ev[i] = [e |-> "command", cmd |-> "Pause"]

(* C27: pw_node_set_state(idle) sends the Pause command to the backend if   *)
(* and only if pause-on-idle is set, the node is active and its state is    *)
(* running; when it does, the node is out of the data loop and none of its  *)
(* links is active afterwards, and when it does not, the data loop and the  *)
(* links are left alone.  pause-on-idle is set when the properties hold no  *)
(* node.pause-on-idle.                                                      *)
C27_PauseOnIdle ==
    [][\A n \in ActiveNodes :
         /\ (lastM'.op = "set_state" /\ lastM'.n = n
             /\ lastM'.arg = PW_NODE_STATE_IDLE) =>
                LET pause == /\ node[n].pause_on_idle
                             /\ node[n].active
                             /\ node[n].state = PW_NODE_STATE_RUNNING
                IN  /\ PauseSent(lastM') <=> pause
                    /\ pause => /\ ~rt'[n].loop
                                /\ \A l \in Links :
                                       (links'[l].out = n \/ links'[l].in = n) =>
                                           links'[l].state # "active"
                    /\ ~pause => rt' = rt /\ links' = links
         /\ (lastM'.op = "update_properties" /\ lastM'.n = n
             /\ lastM'.arg.poi = NoProp) => node'[n].pause_on_idle]_vars

\* a running node with an active link was set to idle: the Pause command was
\* sent, the node left the data loop and the link was paused
C27_Witness ==
    /\ lastM.op = "set_state" /\ lastM.arg = PW_NODE_STATE_IDLE
    /\ PauseSent(lastM)
    /\ ~rt[lastM.n].loop
    /\ \E l \in Links : links[l].out = lastM.n /\ links[l].state = "paused"


(* C28: when the backend emits an Error event on a node that is not in      *)
(* error, the node goes to error and the call emits exactly one             *)
(* state-changed event, to error, and exactly one info-changed event, with  *)
(* the state bit set; on a node that is in error the call emits neither.    *)
C28_ErrorEvent ==
    [][\A n \in LifeNodes :
         (lastM'.op = "event" /\ lastM'.n = n) =>
             IF node[n].state # PW_NODE_STATE_ERROR
             THEN /\ node'[n].state = PW_NODE_STATE_ERROR
                  /\ StatesEntered(lastM') = <<PW_NODE_STATE_ERROR>>
                  /\ Len(EventsOf(lastM', "info_changed")) = 1
                  /\ "state" \in EventsOf(lastM', "info_changed")[1].mask
             ELSE /\ node'[n].state = PW_NODE_STATE_ERROR
                  /\ EventsOf(lastM', "state_changed") = <<>>
                  /\ EventsOf(lastM', "info_changed") = <<>>]_vars

\* the backend of a node in error has emitted another Error event
C28_Witness ==
    /\ lastM.op = "event"
    /\ node[lastM.n].state = PW_NODE_STATE_ERROR
    /\ EventsOf(lastM, "state_changed") = <<>>


(* C29: info.error is set exactly when the node is in the error state, and  *)
(* every state-changed event that announces the error state carries the     *)
(* error string.                                                            *)
C29_ErrorHasString ==
    /\ \A n \in LifeNodes :
           node[n].alive =>
               (node[n].error # "" <=> node[n].state = PW_NODE_STATE_ERROR)
    /\ \A i \in 1..Len(lastM.ev) :
           (lastM.ev[i].e = "state_changed"
            /\ lastM.ev[i].state = PW_NODE_STATE_ERROR) => lastM.ev[i].error # ""


(* Enumerating parameters.  Nodes that have their backend are asked for     *)
(* their parameters, with a limit or without; while the backend enumerates  *)
(* it emits results for the request and for other sequence numbers, and it  *)
(* emits results after the call has returned.  The events of every call are *)
(* recorded.                                                                *)
MaxParams == 2
NumPortNodes == 1
MaxPorts == 3
MaxGlobals == 2
MaxPerms == 2
NumClients == 2
MaxResources == 3
MaxObjects == 2
ResultSeqs ==
    UNION {[1..k -> 1..MaxSeq] : k \in 0..(MaxParams + 1)}

InitParams ==
    /\ InitCommon
    /\ node = [n \in Nodes |->
                  pw_node_set_implementation(
                      FreshWorld([m \in Nodes |-> NewNode(m, TRUE, FALSE)]),
                      n, DefaultBackend).node[n]]
    /\ lastM = NoCallEv

NextParams ==
    \/ \E n \in Nodes, seq \in 1..MaxSeq, max \in 0..MaxParams,
          during \in ResultSeqs : ForEachParam(n, seq, max, during)
    \/ \E n \in Nodes, seq \in 1..MaxSeq : BackendResult(n, seq)

SpecParams == InitParams /\ [][NextParams]_vars

\* the number of results for seq among the results rs
CountSeq(rs, seq) == Cardinality({i \in 1..Len(rs) : rs[i] = seq})

(* C30: pw_node_for_each_param calls the callback once for every result     *)
(* with the request's seq that the backend emits during the call, up to max *)
(* of them and all of them when max is 0, and for no result with another    *)
(* seq; its listener is gone when it returns, so a result the backend emits *)
(* later reaches no callback.                                               *)
C30_ParamsDispatched ==
    [][\A n \in Nodes :
         /\ (lastM'.op = "for_each_param" /\ lastM'.n = n) =>
                LET a == lastM'.arg
                    k == CountSeq(a.during, a.seq)
                    c == IF a.max = 0 \/ k <= a.max THEN k ELSE a.max
                IN  /\ EventsOf(lastM', "param") =
                           [i \in 1..c |-> [e |-> "param", seq |-> a.seq]]
                    /\ node'[n].hooks = <<>>
         /\ (lastM'.op = "backend_result" /\ lastM'.n = n) =>
                EventsOf(lastM', "param") = <<>>]_vars

\* a call with max = 0 during which the backend emitted more than MaxParams
\* results for the request and one for another seq: the callback got the
\* former
C30_Witness ==
    /\ lastM.op = "for_each_param" /\ lastM.arg.max = 0
    /\ Len(lastM.arg.during) > MaxParams
    /\ CountSeq(lastM.arg.during, lastM.arg.seq) = MaxParams
    /\ Len(EventsOf(lastM, "param")) = MaxParams
    /\ node[lastM.n].hooks = <<>>


(* C31: a result of the backend that carries the sequence s completes the   *)
(* first entry of the node's work queue that was queued with s and removes  *)
(* it: the node goes to the state that entry asked for (or to error when    *)
(* the result is an error) and to no other, the entries queued with another *)
(* sequence stay, in their order, also when they are older, and no entry    *)
(* with s is left, so the transition is completed once; a result for which  *)
(* no entry waits completes nothing.                                        *)
C31_CompletesMatchingEntry ==
    [][\A n \in QueueNodes :
         (lastM'.op = "result" /\ lastM'.n = n) =>
             LET s == lastM'.arg
                 i == FirstWaiting(work[n], s)
             IN  IF i = 0
                 THEN /\ work'[n] = work[n]
                      /\ StatesEntered(lastM') = <<>>
                      /\ node'[n].state = node[n].state
                 ELSE /\ work'[n] = DropAt(work[n], i)
                      /\ \A j \in 1..Len(work'[n]) : work'[n][j].seq # s
                      /\ \A j \in 1..Len(StatesEntered(lastM')) :
                             StatesEntered(lastM')[j] =
                                 IF SPA_RESULT_IS_ERROR(node'[n].last_error)
                                 THEN PW_NODE_STATE_ERROR ELSE work[n][i].data
                      /\ node'[n].state =
                             IF SPA_RESULT_IS_ERROR(node'[n].last_error)
                             THEN PW_NODE_STATE_ERROR ELSE work[n][i].data]_vars

\* two transitions waited for their results and the result of the second
\* came first: the first still waits
C31_Witness ==
    /\ lastM.op = "result" /\ lastM.arg = 2
    /\ StatesEntered(lastM) # <<>>
    /\ Len(work[lastM.n]) = 1 /\ work[lastM.n][1].seq = 1

(* ------------------------ the ports of a node -------------------------- *)
PortNodes == 1..NumPortNodes
PortIds == 1..MaxPorts
Directions == {"in", "out"}

InitPorts ==
    /\ InitCommon
    /\ node = [n \in Nodes |->
                  pw_node_set_implementation(
                      FreshWorld([m \in Nodes |-> NewNode(m, TRUE, FALSE)]),
                      n, DefaultBackend).node[n]]
    /\ lastM = NoCall

NextPorts ==
    \/ \E n \in PortNodes, d \in Directions, id \in PortIds,
          info \in {"info", NoInfo} : NodePortInfoOf(n, d, id, info)
    \/ \E n \in PortNodes, d \in Directions, id \in PortIds : PortAdd(n, d, id)

SpecPorts == InitPorts /\ [][NextPorts]_vars

\* the ports in the list l have different ids
DistinctIds(l) == \A i, j \in 1..Len(l) : l[i] = l[j] => i = j

(* C32: adding a port to a node that has a port of that direction with     *)
(* that id fails with exists and leaves the node's ports as they were; a   *)
(* node never holds two ports of one direction with one id, whatever ports *)
(* the backend announces, changes and withdraws.                           *)
C32_NoTwoPortsWithOneId ==
    /\ [](\A n \in Nodes, d \in Directions :
            /\ DistinctIds(node[n].port_list[d])
            /\ node[n].port_map[d] =
                   {node[n].port_list[d][i] : i \in 1..Len(node[n].port_list[d])})
    /\ [][\A n \in PortNodes :
            (lastM'.op = "port_add" /\ lastM'.n = n) =>
                IF lastM'.arg.id \in node[n].port_map[lastM'.arg.dir]
                THEN lastM'.res = ResExists /\ node'[n] = node[n]
                ELSE /\ lastM'.res = ResOk
                     /\ node'[n].port_list[lastM'.arg.dir] =
                            Append(node[n].port_list[lastM'.arg.dir], lastM'.arg.id)]_vars

\* an add of the id of a port that the node has was refused, and the node has
\* another port of that direction
C32_Witness ==
    /\ lastM.op = "port_add" /\ lastM.res = ResExists
    /\ Len(node[lastM.n].port_list[lastM.arg.dir]) = 2
    /\ lastM.arg.id \in node[lastM.n].port_map[lastM.arg.dir]

\* the call recorded in r sent the Start command to the backend
StartSent(r) == \E i \in 1..Len(r.ev) : r.ev[i] = [e |-> "command", cmd |-> "Start"]

(* C33: pw_node_set_state(running) queues the transition to running only   *)
(* when the node is active and the call sent the Start command to the      *)
(* backend, and a node whose state becomes running is active.              *)
C33_RunningOnlyAfterStart ==
    [][\A n \in LifeNodes :
         /\ (/\ lastM'.op = "set_state" /\ lastM'.n = n
             /\ lastM'.arg = PW_NODE_STATE_RUNNING
             /\ TransitionQueued(work'[n], PW_NODE_STATE_RUNNING)
             /\ ~TransitionQueued(work[n], PW_NODE_STATE_RUNNING)) =>
                /\ node[n].active
                /\ StartSent(lastM')
         /\ (/\ node[n].state # PW_NODE_STATE_RUNNING
             /\ node'[n].state = PW_NODE_STATE_RUNNING) =>
                node'[n].active]_vars

(* C34: when pw_node_set_state answers with an error, whatever state was   *)
(* asked for, the node's state and the states of its ports are what they   *)
(* were before the call, the call emitted no state-changed event and it    *)
(* queued no work.                                                         *)
C34_ErrorChangesNothing ==
    [][\A n \in LifeNodes :
         (/\ lastM'.op = "set_state" /\ lastM'.n = n
          /\ SPA_RESULT_IS_ERROR(lastM'.res)) =>
             /\ node'[n].state = node[n].state
             /\ node'[n].ports = node[n].ports
             /\ StatesEntered(lastM') = <<>>
             /\ work'[n] = work[n]]_vars

\* how often entry e is in the target lists of r
EntryCount(r, e) ==
    LET RECURSIVE Sum(_)
        Sum(S) == IF S = {} THEN 0
                  ELSE LET m == CHOOSE x \in S : TRUE
                       IN  CountEntry(r[m].target_list, e) + Sum(S \ {m})
    IN  Sum(Nodes)

(* C35: the target entry of a node is in a driver's target list, and its   *)
(* driver_target entry in its own list, exactly when the node's source is  *)
(* attached to the data loop, and each at most once; a step that leaves    *)
(* the source attached, or leaves it detached, and is no move to another   *)
(* driver leaves the node's entries where they are; entries that are       *)
(* inserted are inserted under the node's driver_node.                     *)
C35_EntriesFollowSource ==
    [][\A n \in Movers :
         node'[n].alive =>
            /\ EntryCount(rt', TargetEntry(n)) = IF rt'[n].loop THEN 1 ELSE 0
            /\ EntryCount(rt', DriverTargetEntry(n)) = IF rt'[n].loop THEN 1 ELSE 0
            /\ rt'[n].loop => HasEntry(rt'[n].target_list, DriverTargetEntry(n))
            /\ (/\ rt'[n].loop
                /\ ListOf(rt', TargetEntry(n)) # ListOf(rt, TargetEntry(n))) =>
                   /\ ListOf(rt', TargetEntry(n)) = node'[n].driver_node
                   /\ rt'[n].driver_target = node'[n].driver_node
            /\ (rt'[n].loop = rt[n].loop /\ (pc = <<>> \/ Head(pc).op # "move")) =>
                   /\ ListOf(rt', TargetEntry(n)) = ListOf(rt, TargetEntry(n))
                   /\ rt'[n].driver_target = rt[n].driver_target]_vars

\* a node that was given the second driver is running, attached to the data
\* loop, with its entry in the list of that driver
C35_Witness ==
    \E n \in Movers :
        /\ node[n].alive /\ node[n].state = PW_NODE_STATE_RUNNING
        /\ rt[n].loop
        /\ node[n].driver_node = CycleDriver + 1
        /\ ListOf(rt, TargetEntry(n)) = CycleDriver + 1
        /\ pc = <<>>

(* C36: when pw_node_register of a node that was not registered answers    *)
(* with an error, the node is not in the core's node list and its          *)
(* registered flag is false.                                               *)
C36_FailedRegisterUndone ==
    [][\A n \in Nodes :
         (/\ lastM'.op = "register" /\ lastM'.n = n
          /\ ~node[n].registered
          /\ SPA_RESULT_IS_ERROR(lastM'.res)) =>
             /\ ~node'[n].registered
             /\ ~node'[n].in_list]_vars

(* ------------------- a client and its permissions ----------------------- *)
(* The globals of the core are numbered from 1 and SPA_ID_INVALID is the    *)
(* number before the first: the entry of global id is at index id + 1 of    *)
(* the C array, the default entry at index 0 (SPA_ID_INVALID + 1); here the *)
(* entry of id is element id + 1 of the sequence and the default entry is   *)
(* element 1.  A permission mask is the set of its bits; "other" stands for *)
(* the bits above PW_PERM_R and PW_PERM_W.                                  *)
GlobalIds == 1..MaxGlobals
PermBits == {"r", "w", "other"}
Perms == SUBSET PermBits
\* SPA_ID_INVALID in the field permissions: all bits set
PERM_INVALID == PermBits

\* pw_client_new: the array holds the default entry with no permission
pw_client_new ==
    [permissions |-> <<[id |-> SPA_ID_INVALID, permissions |-> {}]>>,
     globals |-> {}, clipped |-> FALSE,
     resources |-> [id \in GlobalIds |-> <<>>], delivered |-> {}, res |-> ResOk]

\* the element of the array that find_permission returns
find_permission(c, id) ==
    IF id = SPA_ID_INVALID THEN 1
    ELSE IF id + 1 > Len(c.permissions) THEN 1
    ELSE IF c.permissions[id + 1].permissions = PERM_INVALID THEN 1
    ELSE id + 1

\* the array is grown to hold the entry of id; new entries are not set
ensure_permissions(c, id) ==
    LET len == Len(c.permissions)
    IN  IF len <= id
        THEN [c EXCEPT !.permissions =
                 @ \o [i \in 1..(id - len + 1) |->
                          [id |-> len + i - 1, permissions |-> PERM_INVALID]]]
        ELSE c

\* client_permission_func: what the client may do with global id
client_permission_func(c, id) ==
    c.permissions[find_permission(c, id)].permissions

\* one round of the loop of pw_client_update_permissions; self tells whether
\* core->current_client is the client
UpdateOne(c, perm, self) ==
    IF perm.id = SPA_ID_INVALID
    THEN LET old_perm == c.permissions[1].permissions
             new_perm == IF self THEN perm.permissions \cap old_perm
                         ELSE perm.permissions
         IN  [c EXCEPT !.permissions[1].permissions = new_perm,
                       !.clipped = @ \/ (self /\ new_perm # perm.permissions)]
    ELSE IF perm.id \notin c.globals THEN c
    ELSE LET c1 == ensure_permissions(c, perm.id)
             p  == c1.permissions[perm.id + 1]
             old_perm == IF p.permissions = PERM_INVALID
                         THEN c1.permissions[1].permissions ELSE p.permissions
             new_perm == IF self THEN perm.permissions \cap old_perm
                         ELSE perm.permissions
         IN  [c1 EXCEPT !.permissions[perm.id + 1].permissions = new_perm,
                        !.clipped = @ \/ (self /\ new_perm # perm.permissions)]

RECURSIVE UpdateLoop(_, _, _)
UpdateLoop(c, permissions, self) ==
    IF permissions = <<>> THEN c
    ELSE UpdateLoop(UpdateOne(c, Head(permissions), self), Tail(permissions), self)

\* pw_client_update_permissions that lets the client grant itself permissions
pw_client_update_permissions_grant(c, permissions, self) ==
    UpdateLoop([c EXCEPT !.clipped = FALSE], permissions, FALSE)

pw_client_update_permissions(c, permissions, self) ==
    UpdateLoop([c EXCEPT !.clipped = FALSE], permissions, self)

core_global_removed(c, id) ==
    LET p == find_permission(c, id)
    IN  IF c.permissions[p].id # SPA_ID_INVALID
        THEN [c EXCEPT !.permissions[p].permissions = PERM_INVALID,
                       !.globals = @ \ {id}]
        ELSE [c EXCEPT !.globals = @ \ {id}]

ClientStep(op, self, c) ==
    /\ client' = c
    /\ lastM' = [op |-> op, self |-> self]
    /\ UNCHANGED <<node, work, rt, links, pc, fault, lastH, race, clock, context>>

\* the client itself (self) or another client, such as the session manager,
\* calls update_permissions on the client
UpdatePermissions(permissions, self) ==
    /\ client # NoClient
    /\ ClientStep("update_permissions", self,
                  pw_client_update_permissions(client, permissions, self))

\* a global is added to the core
GlobalAdded(id) ==
    /\ id \notin client.globals
    /\ ClientStep("global_added", FALSE, [client EXCEPT !.globals = @ \cup {id}])

\* a global is removed from the core
GlobalRemoved(id) ==
    /\ id \in client.globals
    /\ ClientStep("global_removed", FALSE, core_global_removed(client, id))

PermArgs ==
    UNION {[1..n -> [id : {SPA_ID_INVALID} \cup GlobalIds, permissions : Perms]] :
           n \in 1..MaxPerms}

InitClient ==
    /\ work = [n \in Nodes |-> <<>>]
    /\ rt = [n \in Nodes |-> NewRt]
    /\ links = [l \in Links |-> NoLink]
    /\ pc = <<>>
    /\ fault = FALSE
    /\ lastH = NoHandler
    /\ race = NoRace
    /\ clock = 0
    /\ node = [n \in Nodes |-> NewNode(n, TRUE, FALSE)]
    /\ lastM = NoCall
    /\ client = pw_client_new
    /\ context = NoContext

NextClient ==
    \/ \E ps \in PermArgs, self \in BOOLEAN : UpdatePermissions(ps, self)
    \/ \E id \in GlobalIds : GlobalAdded(id)
    \/ \E id \in GlobalIds : GlobalRemoved(id)

SpecClient == InitClient /\ [][NextClient]_vars

(* C37: when the client itself calls update_permissions, what the client   *)
(* may do with each global that exists (the global's own entry, or the     *)
(* default entry when it has none) after the call is a subset of what it   *)
(* might do before the call.                                               *)
C37_NoSelfGrant ==
    [][(lastM'.op = "update_permissions" /\ lastM'.self) =>
           \A id \in client.globals :
               client_permission_func(client', id)
                   \subseteq client_permission_func(client, id)]_vars

\* the client asked for more than it had, for a global that has its own entry
\* and holds some permission but not all, and the request was cut down
C37_Witness ==
    /\ lastM.op = "update_permissions" /\ lastM.self
    /\ client.clipped
    /\ \E id \in client.globals :
          /\ find_permission(client, id) # 1
          /\ client_permission_func(client, id) = {"r"}
          /\ client.permissions[1].permissions = {"r", "w"}

(* ---------------------- the error method of a client -------------------- *)
Clients == 1..NumClients
\* the client whose method is called
ThisClient == CHOOSE c \in Clients : \A d \in Clients : c <= d

\* global_bind: a resource of client owner is appended to the resource list
global_bind(c, id, owner) ==
    [c EXCEPT !.resources[id] = Append(@, owner)]

\* client_error: the resources of global id that are sent the error, by their
\* place in the resource list.  The loop tests the client of t, the element
\* after r; after the last resource t is the list head, which is no resource,
\* and past tells whether the memory read there equals the client
client_error(c, id, past) ==
    IF id \notin c.globals THEN [c EXCEPT !.res = -ENOENT, !.delivered = {}]
    ELSE LET l == c.resources[id]
         IN  [c EXCEPT !.res = ResOk,
                       !.delivered =
                           {i \in 1..Len(l) :
                               IF i < Len(l) THEN l[i + 1] = ThisClient ELSE past}]

GlobalBind(id, owner) ==
    /\ id \in client.globals
    /\ Len(client.resources[id]) < MaxResources
    /\ client' = global_bind(client, id, owner)
    /\ lastM' = [op |-> "bind", id |-> id]
    /\ UNCHANGED <<node, work, rt, links, pc, fault, lastH, race, clock, context>>

ClientError(id, past) ==
    /\ client # NoClient
    /\ client' = client_error(client, id, past)
    /\ lastM' = [op |-> "error", id |-> id]
    /\ UNCHANGED <<node, work, rt, links, pc, fault, lastH, race, clock, context>>

NextError ==
    \/ \E id \in GlobalIds : GlobalAdded(id)
    \/ \E id \in GlobalIds, owner \in Clients : GlobalBind(id, owner)
    \/ \E id \in GlobalIds, past \in BOOLEAN : ClientError(id, past)

SpecError == InitClient /\ [][NextError]_vars

(* C38: the error method of the client for global id sends the error to    *)
(* every resource in the global's resource list that belongs to the client *)
(* and to no resource of another client, and answers 0; when the global    *)
(* does not exist it answers no-entity and sends nothing.                  *)
C38_ErrorToOwnResources ==
    [][lastM'.op = "error" =>
          IF lastM'.id \in client.globals
          THEN /\ client'.res = ResOk
               /\ client'.delivered =
                      {i \in 1..Len(client.resources[lastM'.id]) :
                          client.resources[lastM'.id][i] = ThisClient}
          ELSE /\ client'.res = -ENOENT
               /\ client'.delivered = {}]_vars

(* -------------------- the PulseAudio-compatible context ---------------- *)
ContextStates == {"UNCONNECTED", "CONNECTING", "AUTHORIZING", "SETTING_NAME",
                  "READY", "FAILED", "TERMINATED"}
PA_CONTEXT_IS_GOOD(st) ==
    st \in {"CONNECTING", "AUTHORIZING", "SETTING_NAME", "READY"}
Terminal(st) == st \in {"FAILED", "TERMINATED"}

\* pa_context_new_with_proplist.  state_callback tells whether a callback is
\* installed, core whether c->core is set and its listener added, registry
\* whether the registry listener is added, globals and operations count the
\* entries of the two lists; ev holds what the last call did, and entered
\* whether the state ever was FAILED or TERMINATED
pa_context_new ==
    [state |-> "UNCONNECTED", state_callback |-> FALSE, core |-> FALSE,
     core_info |-> FALSE, registry |-> FALSE, disconnect |-> FALSE,
     globals |-> 0, operations |-> 0, ev |-> <<>>, entered |-> FALSE]

context_unlink(c) ==
    [c EXCEPT !.disconnect = TRUE,
              !.state_callback = FALSE,
              !.globals = 0,
              !.operations = 0,
              !.ev = Append(@, [e |-> "unlink"])]

\* pa_context_set_state that unlinks the context before it calls the callback
pa_context_set_state_unlink_first(c, st) ==
    IF c.state = st THEN c
    ELSE LET c1 == [c EXCEPT !.state = st, !.entered = @ \/ Terminal(st)]
             c2 == IF Terminal(st) THEN context_unlink(c1) ELSE c1
         IN  IF c.state_callback
             THEN [c2 EXCEPT !.ev = Append(@, [e |-> "state_callback", state |-> st])]
             ELSE c2

pa_context_set_state(c, st) ==
    IF c.state = st THEN c
    ELSE LET c1 == [c EXCEPT !.state = st, !.entered = @ \/ Terminal(st)]
             c2 == IF c1.state_callback
                   THEN [c1 EXCEPT !.ev = Append(@, [e |-> "state_callback",
                                                     state |-> st])]
                   ELSE c1
         IN  IF Terminal(st) THEN context_unlink(c2) ELSE c2

context_fail(c) == pa_context_set_state(c, "FAILED")

pa_context_set_state_callback(c, cb) ==
    IF Terminal(c.state) THEN c
    ELSE [c EXCEPT !.state_callback = cb]

\* ok tells whether pw_context_connect returns a core
pa_context_connect(c, ok) ==
    IF c.state # "UNCONNECTED" THEN c
    ELSE LET c1 == pa_context_set_state(c, "CONNECTING")
         IN  IF ok THEN [c1 EXCEPT !.core = TRUE] ELSE context_fail(c1)

pa_context_disconnect(c) ==
    LET c1 == [c EXCEPT !.disconnect = TRUE, !.core = FALSE]
    IN  IF PA_CONTEXT_IS_GOOD(c1.state)
        THEN pa_context_set_state(c1, "TERMINATED")
        ELSE c1

\* the info event of the core
core_info(c) ==
    IF ~c.core_info
    THEN [pa_context_set_state(
              pa_context_set_state(
                  pa_context_set_state(c, "AUTHORIZING"), "SETTING_NAME"),
              "READY") EXCEPT !.core_info = TRUE]
    ELSE c

\* the error event of the core for id 0
core_error(c) == IF ~c.disconnect THEN context_fail(c) ELSE c

ContextStep(op, arg, c) ==
    /\ context' = c
    /\ lastM' = [op |-> op, arg |-> arg]
    /\ UNCHANGED <<node, work, rt, links, pc, fault, lastH, race, clock, client>>

Called == [context EXCEPT !.ev = <<>>]

\* the calls of the application; the context is not freed while they are made
SetStateCallback(cb) ==
    /\ context # NoContext
    /\ ContextStep("set_state_callback", cb, pa_context_set_state_callback(Called, cb))

ContextConnect(ok) ==
    /\ context # NoContext
    /\ ContextStep("connect", ok, pa_context_connect(Called, ok))

ContextDisconnect ==
    /\ context # NoContext
    /\ ContextStep("disconnect", FALSE, pa_context_disconnect(Called))

\* the core listener gets an event of the server
CoreInfo ==
    /\ context.core
    /\ ContextStep("core_info", FALSE, core_info(Called))

CoreError ==
    /\ context.core
    /\ ContextStep("core_error", FALSE, core_error(Called))

\* pa_context_subscribe: the registry listener is added and an operation made
pa_context_subscribe(c) ==
    IF c.state # "READY" THEN c
    ELSE [c EXCEPT !.registry = TRUE, !.operations = @ + 1]

\* the global event of the registry, for a global of a kind the context keeps
registry_event_global(c) == [c EXCEPT !.globals = @ + 1]

ContextSubscribe ==
    /\ context.operations < MaxObjects
    /\ ContextStep("subscribe", FALSE, pa_context_subscribe(Called))

ContextGlobal ==
    /\ context.registry /\ context.core /\ context.globals < MaxObjects
    /\ ContextStep("global", FALSE, registry_event_global(Called))

InitContext ==
    /\ work = [n \in Nodes |-> <<>>]
    /\ rt = [n \in Nodes |-> NewRt]
    /\ links = [l \in Links |-> NoLink]
    /\ pc = <<>>
    /\ fault = FALSE
    /\ lastH = NoHandler
    /\ race = NoRace
    /\ clock = 0
    /\ node = [n \in Nodes |-> NewNode(n, TRUE, FALSE)]
    /\ lastM = NoCall
    /\ client = NoClient
    /\ context = pa_context_new

NextContext ==
    \/ \E cb \in BOOLEAN : SetStateCallback(cb)
    \/ \E ok \in BOOLEAN : ContextConnect(ok)
    \/ ContextDisconnect
    \/ CoreInfo
    \/ CoreError
    \/ ContextSubscribe
    \/ ContextGlobal

SpecContext == InitContext /\ [][NextContext]_vars

\* the states the state callback was called with in the last call
CallbackStates(c) ==
    LET cbs == SelectSeq(c.ev, LAMBDA e : e.e = "state_callback")
    IN  [i \in 1..Len(cbs) |-> cbs[i].state]

(* C39: a call that leaves the state of the context as it was calls no     *)
(* state callback, and a call that changes it while a callback is          *)
(* installed calls it with the new state; the callback for FAILED or       *)
(* TERMINATED is called before the context is unlinked; a call that enters *)
(* FAILED or TERMINATED leaves the context with no callback, no globals    *)
(* and no operations; and once the context has entered FAILED or           *)
(* TERMINATED no call calls the state callback or installs one.            *)
C39_StateCallback ==
    [][/\ context'.state = context.state => CallbackStates(context') = <<>>
       /\ (context'.state # context.state /\ context.state_callback) =>
            /\ CallbackStates(context') # <<>>
            /\ CallbackStates(context')[Len(CallbackStates(context'))]
                   = context'.state
       /\ \A i, j \in 1..Len(context'.ev) :
            (context'.ev[i].e = "unlink" /\ context'.ev[j].e = "state_callback")
                => j < i
       /\ (Terminal(context'.state) /\ context'.state # context.state) =>
            /\ ~context'.state_callback
            /\ context'.globals = 0
            /\ context'.operations = 0
       /\ context.entered =>
            /\ CallbackStates(context') = <<>>
            /\ ~context'.state_callback]_vars

====
